---------------------------- MODULE Spec2Model ----------------------------
(***************************************************************************)
(* A model of the on-chain trade detection and streaming core of the       *)
(* Polymarket BTC up/down scraper:                                         *)
(*   - the OrderFilled log decoder            (polymarket_btc5m/chain.py)  *)
(*   - the block-timestamp bisection searches (scripts/export_..._chain)   *)
(*   - the adaptive range scanner and its normalizer       (same script)   *)
(*   - the real-time head-processing pipeline (trade_streamer.py)          *)
(*   - the websocket connect loops (ws_connection.py, trade_streamer.py)   *)
(*                                                                         *)
(* Text is modelled as sequences of one-character strings, so that         *)
(* slicing, lower-casing and base-16 parsing are computed, not assumed.    *)
(* Each component has its own specification (SpecDecode, SpecBisect,       *)
(* SpecNormalize, SpecScan, SpecPipe, SpecWs); the variables of the other  *)
(* components stay at their initial value.                                 *)
(***************************************************************************)
EXTENDS Integers, Sequences, FiniteSets, TLC

VARIABLES
    \* --- decoder harness (a pure function applied to a drawn input)
    dec_log,        \* the raw log handed to decode_order_filled_log
    dec_src,        \* the fields the raw log was built from
    dec_result,     \* what decode_order_filled_log returned
    dec_pc,         \* "call" | "done"
    \* --- block-timestamp resolver (main() of the backfill script)
    chain_ts,       \* the chain: block number -> timestamp, non-decreasing
    latest_block,   \* result of eth_blockNumber
    scan_start_ts,  \* target of _find_first_block_ge_ts
    scan_end_ts,    \* target of _find_last_block_le_ts
    bis_lo,         \* lo of the running search
    bis_hi,         \* hi of the running search
    bis_iter,       \* loop iterations of the running search
    block_ts_cache, \* block_ts_cache: block number -> timestamp
    ts_requests,    \* eth_getBlockByNumber calls made so far, per block number
    bis_start_block,\* value returned by _find_first_block_ge_ts (0: not yet)
    bis_end_block,  \* value returned by _find_last_block_le_ts (0: not yet)
    bis_pc,         \* "first" | "last" | "done" | "raised"
    \* --- backfill normalizer harness (a pure function applied to a drawn log)
    norm_src,       \* the fields the raw log was built from
    norm_tokens,    \* token_to_outcome of the market
    norm_result,    \* what _normalize_trade_from_log returned
    norm_pc,        \* "call" | "done"
    \* --- adaptive range scanner (_scan_market_trades)
    chain_logs,     \* the chain: block number -> raw logs the filter matches
    start_block,    \* arguments of _scan_market_trades
    end_block,
    initial_span,
    min_span,
    span,           \* locals of _scan_market_trades
    current,
    ranges,
    rows,
    scan_pc,        \* "loop" | "done" | "raised" | "written"
    scan_error,     \* text of the exception the last eth_getLogs call raised
                    \* (empty: it answered)
    scan_result,    \* what _scan_market_trades returned to main()
    trades_csv,     \* rows of the trades CSV main() wrote
    validation_json,\* the validation report main() wrote
    written,        \* the files main() wrote
    \* --- websocket connect loop (ClobWebSocket / PolygonHeadSubscriber)
    ws_kind,          \* which of the two classes the object is
    ws_pc,            \* position of the _connect_loop thread
    reconnect_delay,  \* self._reconnect_delay, in seconds
    stop_event,       \* self._stop_event
    connected,        \* self._connected
    ws_attempts,      \* connections started so far
    ws_opened,        \* whether a connection has opened since start
    fails_since_open, \* connections that ended without opening, since the
                      \* last open (since start when none opened)
    last_wait,        \* timeout of the wait just taken (0: none yet)
    ws_closing,       \* close() was called on the app run_forever is running
    stop_pc,          \* position of the thread that calls stop():
                      \* "idle" | "close" | "join" | "returned"
    heartbeat_timer,  \* self._heartbeat_timer: "none", or a Timer that is
                      \* "armed" or has "fired"
    hb_pc,            \* the thread of the timer that fired, in
                      \* _send_heartbeat: "idle" | "send" | "restart"
    \* --- real-time pipeline (MarketTracker index, TradeStreamService)
    token_index,          \* MarketTracker._token_index: token id text -> slug
    active_markets,       \* MarketTracker._active: slug -> market
    head_queue,           \* TradeStreamService._head_queue
    processed_blocks,     \* deque of block numbers
    processed_block_set,
    seen_log_uids,        \* deque of log uids
    seen_log_uid_set,
    csv_rows,             \* rows appended to the CSV sink
    broadcasts,           \* rows handed to the broadcaster
    emitted,              \* (tx_hash, log_index) of each row of the sink, in order
    events_processed,
    uids_skipped,         \* times _is_seen_log_uid answered True
    heads_delivered,      \* newHeads notifications received so far
    heads_enqueued,       \* heads put on the queue so far
    clock_ms,             \* int(time.time() * 1000), the wall clock
    pipe_stop_event,      \* TradeStreamService._stop_event
    processor_alive,      \* the processor thread is in its loop: no exception
                          \* has left _process_heads_loop
    pipe_log,             \* per dequeued head: its block, its place in the order
                          \* of enqueueing, how the iteration ended and the rows
                          \* the sink held before it
    \* --- MarketTracker
    tr_timeframes,        \* self._timeframes
    tr_now,               \* the clock, as _check_expired last read it
    tr_polls,             \* poll_once calls made
    tr_listing,           \* the markets the listing of the last poll returned
    tr_discovery_now,     \* the clock, as _process_new last read it
    tr_added,             \* slugs of the markets the last poll reported as added
    tr_expired,           \* slugs of the markets the last poll reported as expired
    tr_ever_expired,      \* slugs of the markets some poll reported as expired
    \* --- batch pipeline: _fetch_all_trades_for_market and its enricher
    en_rpc,               \* config.rpc_url is set (an enricher exists)
    en_block_ts_cache,    \* TradeTimestampEnricher._block_ts_cache
    en_receipt_cache,     \* TradeTimestampEnricher._receipt_cache
    en_usage,             \* TradeTimestampEnricher._usage_counter
    en_page,              \* what /trades answered for the last market
    en_rows,              \* rows the last call returned
    en_fetches,           \* markets fetched so far
    en_pc,                \* "idle" | "returned" | "raised"
    \* --- backfill RpcClient (scripts/export_market_trades_chain.py)
    rpc_urls,             \* len(self.urls) of the backfill RpcClient
    rpc_max_retries,      \* self.max_retries
    url_idx,              \* self.url_idx
    rpc_attempt,          \* the loop variable of call (attempts begun before this one)
    rpc_log,              \* per attempt of the running call: url used, outcome, sleep taken
    rpc_result,           \* what the call returned
    rpc_calls,            \* calls made on the client
    rpc_pc,               \* "idle" | "calling" | "returned" | "raised"
    \* --- PolygonRpcClient (polymarket_btc5m/chain.py)
    poly_max_retries,     \* self.max_retries of PolygonRpcClient
    poly_backoff,         \* self.backoff_seconds, in tenths of a second
    poly_request_id,      \* self._request_id
    poly_attempt,         \* the loop variable of call
    poly_log,             \* per attempt of the running call: request id, outcome, sleep taken
    poly_result,          \* what the call returned
    poly_calls,           \* calls made on the client
    poly_pc,              \* "idle" | "calling" | "returned" | "raised"
    \* --- OrderBookRecorder (recorder.py) and its ClobWebSocket
    rec_pc,               \* discovery thread: "start" | "idle" | "polled" | "send" | "unsubscribe"
    all_new_tokens,       \* all_new_tokens of _subscribe_markets
    all_old_tokens,       \* all_old_tokens of _unsubscribe_markets
    rec_ws_pc,            \* websocket thread: "not_started" | "connecting" | "on_open" | "callback" | "send_initial" | "open"
    rec_socket,           \* the socket of the current WebSocketApp is open
    is_connected,         \* ClobWebSocket._connected
    all_tokens,           \* all_tokens of _on_ws_connected
    rec_subscribed,       \* token ids of the subscribe messages sent on the current connection
    rec_unsubscribed,     \* token ids of the unsubscribe messages sent on the current connection
    rec_connects,         \* connections opened so far
    \* --- TradeStreamService._normalize_trade applied to one log in successive runs
    rs_log,               \* the decoded OrderFilled log both runs of the service process
    rs_block_ts,          \* the timestamp of its block
    rs_pc,                \* "idle" | "running" | "stopped"
    rs_keys,              \* per run so far: the dedupe key of the row made from the log, or None
    \* --- OrderBookRecorder (recorder.py): the CSV writers and the event handlers
    sink_pc,              \* main thread: "start" | "idle" | "subscribe" | "unsubscribe" | "shutdown" | "stopped"
    sink_added,           \* added of the current iteration of _discovery_loop, by slug
    sink_expired,         \* expired of the current iteration, by slug
    writers,              \* the slugs of OrderBookRecorder._writers
    closed_writers,       \* the MarketCsvWriter objects closed so far, by slug
    ev_listening,         \* the websocket thread dispatches events
    ev_pc,                \* websocket thread in a handler: "idle" | "resolved" | "holding"
    ev_slug,              \* slug of the handler (at most one)
    ev_writer,            \* writer of the handler (at most one)
    sink_writes           \* the calls of write_book_row, write_change_row and write_trade_row

decVars == << dec_log, dec_src, dec_result, dec_pc >>

\* the chain and the timestamp cache, shared by the resolver and the scanner
chainVars == << chain_ts, latest_block, block_ts_cache, ts_requests >>

bisVars == << scan_start_ts, scan_end_ts, bis_lo, bis_hi, bis_iter,
              bis_start_block, bis_end_block, bis_pc >>

normVars == << norm_src, norm_tokens, norm_result, norm_pc >>

scanVars == << chain_logs, start_block, end_block, initial_span, min_span, span,
               current, ranges, rows, scan_pc, scan_error, scan_result, trades_csv,
               validation_json, written >>

wsVars == << ws_kind, ws_pc, reconnect_delay, stop_event, connected, ws_attempts,
            ws_opened, fails_since_open, last_wait, ws_closing, stop_pc,
            heartbeat_timer, hb_pc >>

trackerVars == << token_index, active_markets, tr_timeframes, tr_now, tr_polls,
                 tr_listing, tr_discovery_now, tr_added, tr_expired,
                 tr_ever_expired >>

pipeVars == << head_queue, processed_blocks, processed_block_set, seen_log_uids,
              seen_log_uid_set, csv_rows, broadcasts, emitted, events_processed,
              uids_skipped, heads_delivered, heads_enqueued, clock_ms,
              pipe_stop_event, processor_alive, pipe_log >>

enrichVars == << en_rpc, en_block_ts_cache, en_receipt_cache, en_usage, en_page,
                en_rows, en_fetches, en_pc >>

rpcVars == << rpc_urls, rpc_max_retries, url_idx, rpc_attempt, rpc_log, rpc_result,
             rpc_calls, rpc_pc >>

polyVars == << poly_max_retries, poly_backoff, poly_request_id, poly_attempt, poly_log,
              poly_result, poly_calls, poly_pc >>

recVars == << rec_pc, all_new_tokens, all_old_tokens, rec_ws_pc, rec_socket, is_connected, all_tokens, rec_subscribed, rec_unsubscribed, rec_connects >>

replayVars == << rs_log, rs_block_ts, rs_pc, rs_keys >>

sinkVars == << sink_pc, sink_added, sink_expired, writers, closed_writers, ev_listening, ev_pc, ev_slug, ev_writer, sink_writes >>

vars == << decVars, chainVars, bisVars, normVars, scanVars, wsVars, trackerVars,
           pipeVars, enrichVars, rpcVars, polyVars,
           recVars,
           replayVars,
           sinkVars >>

\* what the actions of one component leave alone
DecodeFrame == UNCHANGED << chainVars, bisVars, normVars, scanVars, wsVars, trackerVars, pipeVars, enrichVars, rpcVars, polyVars, recVars, replayVars, sinkVars >>
BisectFrame == UNCHANGED << decVars, normVars, scanVars, wsVars, trackerVars, pipeVars, enrichVars, rpcVars, polyVars, recVars, replayVars, sinkVars >>
NormalizeFrame == UNCHANGED << decVars, bisVars, scanVars, wsVars, trackerVars, pipeVars, enrichVars, rpcVars, polyVars, recVars, replayVars, sinkVars >>
ScanFrame == UNCHANGED << decVars, bisVars, normVars, wsVars, trackerVars, pipeVars, enrichVars, rpcVars, polyVars, recVars, replayVars, sinkVars >>
WsFrame == UNCHANGED << decVars, chainVars, bisVars, normVars, scanVars, trackerVars, pipeVars, enrichVars, rpcVars, polyVars, recVars, replayVars, sinkVars >>
PipeFrame == UNCHANGED << decVars, chainVars, bisVars, normVars, scanVars, wsVars, enrichVars, rpcVars, polyVars, recVars, replayVars, sinkVars >>
EnrichFrame == UNCHANGED << decVars, chainVars, bisVars, normVars, scanVars, wsVars, trackerVars, pipeVars, rpcVars, polyVars, recVars, replayVars, sinkVars >>
RpcFrame == UNCHANGED << decVars, chainVars, bisVars, normVars, scanVars, wsVars, trackerVars, pipeVars, enrichVars, polyVars, recVars, replayVars, sinkVars >>
PolyFrame == UNCHANGED << decVars, chainVars, bisVars, normVars, scanVars, wsVars, trackerVars, pipeVars, enrichVars, rpcVars, recVars, replayVars, sinkVars >>
RecorderFrame == UNCHANGED << decVars, chainVars, bisVars, normVars, scanVars, wsVars, pipeVars, enrichVars, rpcVars, polyVars, replayVars, sinkVars >>
ReplayFrame == UNCHANGED << decVars, chainVars, bisVars, normVars, scanVars, wsVars, pipeVars, enrichVars, rpcVars, polyVars, recVars, sinkVars >>
SinkFrame == UNCHANGED << decVars, chainVars, bisVars, normVars, scanVars, wsVars, pipeVars, enrichVars, rpcVars, polyVars, recVars, replayVars >>

-----------------------------------------------------------------------------
(***************************************************************************)
(* Text helpers                                                            *)
(***************************************************************************)

Min(a, b) == IF a <= b THEN a ELSE b
Max(a, b) == IF a >= b THEN a ELSE b

\* Python's None
None == [kind |-> "None"]

\* the empty str
EmptyText == << >>

\* value of a base-16 digit, as int(s, 16) reads it
HexDigitValue ==
    ("0" :> 0) @@ ("1" :> 1) @@ ("2" :> 2) @@ ("3" :> 3) @@ ("4" :> 4) @@
    ("5" :> 5) @@ ("6" :> 6) @@ ("7" :> 7) @@ ("8" :> 8) @@ ("9" :> 9) @@
    ("a" :> 10) @@ ("b" :> 11) @@ ("c" :> 12) @@ ("d" :> 13) @@ ("e" :> 14) @@
    ("f" :> 15) @@ ("A" :> 10) @@ ("B" :> 11) @@ ("C" :> 12) @@ ("D" :> 13) @@
    ("E" :> 14) @@ ("F" :> 15)

LowerHexDigits ==
    << "0", "1", "2", "3", "4", "5", "6", "7", "8", "9",
       "a", "b", "c", "d", "e", "f" >>

UpperHexDigits ==
    << "0", "1", "2", "3", "4", "5", "6", "7", "8", "9",
       "A", "B", "C", "D", "E", "F" >>

\* str.lower() on the characters the model uses
UpperToLower ==
    ("A" :> "a") @@ ("B" :> "b") @@ ("C" :> "c") @@ ("D" :> "d") @@
    ("E" :> "e") @@ ("F" :> "f") @@ ("G" :> "g") @@ ("H" :> "h") @@
    ("I" :> "i") @@ ("J" :> "j") @@ ("K" :> "k") @@ ("L" :> "l") @@
    ("M" :> "m") @@ ("N" :> "n") @@ ("O" :> "o") @@ ("P" :> "p") @@
    ("Q" :> "q") @@ ("R" :> "r") @@ ("S" :> "s") @@ ("T" :> "t") @@
    ("U" :> "u") @@ ("V" :> "v") @@ ("W" :> "w") @@ ("X" :> "x") @@
    ("Y" :> "y") @@ ("Z" :> "z")

LowerChar(c) == IF c \in DOMAIN UpperToLower THEN UpperToLower[c] ELSE c

Lower(s) == [i \in 1..Len(s) |-> LowerChar(s[i])]

\* s[a:b] with Python's clamping (0-based, half-open)
PySlice(s, a, b) == SubSeq(s, a + 1, Min(b, Len(s)))

\* s[-n:]
PyTail(s, n) == SubSeq(s, Max(1, Len(s) - n + 1), Len(s))

StartsWith0x(s) == Len(s) >= 2 /\ s[1] = "0" /\ s[2] = "x"

\* s.removeprefix("0x")
RemovePrefix0x(s) == IF StartsWith0x(s) THEN SubSeq(s, 3, Len(s)) ELSE s

ValueError == [ok |-> FALSE, exc |-> "ValueError"]

Ok(v) == [ok |-> TRUE, val |-> v]

\* base^n
RECURSIVE Pow(_, _)
Pow(base, n) == IF n = 0 THEN 1 ELSE base * Pow(base, n - 1)

\* the digits s[lo..hi] read in the given base, most significant first; -1 on
\* a character that is no digit of the base.  The range is halved rather than
\* walked, which keeps the evaluation shallow on 64-character words.
RECURSIVE ReadDigits(_, _, _, _)
ReadDigits(s, lo, hi, base) ==
    IF lo = hi
    THEN IF s[lo] \notin DOMAIN HexDigitValue \/ HexDigitValue[s[lo]] >= base
         THEN 0 - 1
         ELSE HexDigitValue[s[lo]]
    ELSE LET mid   == (lo + hi) \div 2
             left  == ReadDigits(s, lo, mid, base)
             right == ReadDigits(s, mid + 1, hi, base)
         IN  IF left < 0 \/ right < 0 THEN 0 - 1
             ELSE IF left = 0 THEN right
             ELSE left * Pow(base, hi - mid) + right

\* int(s, 16): an optional 0x/0X prefix, then at least one base-16 digit
PyInt16(s) ==
    LET first == IF Len(s) >= 2 /\ s[1] = "0" /\ s[2] \in {"x", "X"} THEN 3 ELSE 1
        v == IF first > Len(s) THEN 0 - 1 ELSE ReadDigits(s, first, Len(s), 16)
    IN  IF v < 0 THEN ValueError ELSE Ok(v)

\* int(s): decimal digits only
PyInt10(s) ==
    LET v == IF Len(s) = 0 THEN 0 - 1 ELSE ReadDigits(s, 1, Len(s), 10)
    IN  IF v < 0 THEN ValueError ELSE Ok(v)

-----------------------------------------------------------------------------
(***************************************************************************)
(* chain.py: constants and the log decoder                                 *)
(***************************************************************************)

CTF_EXCHANGE ==
    << "0", "x", "4", "b", "f", "b", "4", "1", "d", "5", "b", "3", "5", "7", "0", "d",
       "e", "f", "d", "0", "3", "c", "3", "9", "a", "9", "a", "4", "d", "8", "d", "e",
       "6", "b", "d", "8", "b", "8", "9", "8", "2", "e" >>

NEG_RISK_CTF_EXCHANGE ==
    << "0", "x", "c", "5", "d", "5", "6", "3", "a", "3", "6", "a", "e", "7", "8", "1",
       "4", "5", "c", "4", "5", "a", "5", "0", "1", "3", "4", "d", "4", "8", "a", "1",
       "2", "1", "5", "2", "2", "0", "f", "8", "0", "a" >>

EXCHANGE_ADDRESSES == { CTF_EXCHANGE, NEG_RISK_CTF_EXCHANGE }

ORDER_FILLED_TOPIC0 ==
    << "0", "x", "d", "0", "a", "0", "8", "e", "8", "c", "4", "9", "3", "f", "9", "c",
       "9", "4", "f", "2", "9", "3", "1", "1", "6", "0", "4", "c", "9", "d", "e", "1",
       "b", "4", "e", "8", "c", "8", "d", "4", "c", "0", "6", "b", "d", "0", "c", "7",
       "8", "9", "a", "f", "5", "7", "f", "2", "d", "6", "5", "b", "f", "e", "c", "0",
       "f", "6" >>

USDC_ASSET_ID == 0

\* hex characters of one 32-byte word, and of a 20-byte address
WORD_HEX_LEN == 64
ADDRESS_HEX_LEN == 40
\* words in the data payload of an OrderFilled log
PAYLOAD_WORDS == 5

\* parse_hex_int on the text of a JSON field (absent fields are the empty text)
parse_hex_int(text) ==
    LET r == IF StartsWith0x(text) THEN PyInt16(text) ELSE PyInt10(text)
    IN  IF r.ok THEN r.val ELSE 0

topic_to_address_Head(topic_hex) ==
    LET clean == RemovePrefix0x(Lower(topic_hex))
    IN  IF Len(clean) # WORD_HEX_LEN THEN ValueError
        ELSE Ok(<< "0", "x" >> \o PySlice(clean, 0, ADDRESS_HEX_LEN))

topic_to_address(topic_hex) ==
    LET clean == RemovePrefix0x(Lower(topic_hex))
    IN  IF Len(clean) # WORD_HEX_LEN THEN ValueError
        ELSE Ok(<< "0", "x" >> \o PyTail(clean, ADDRESS_HEX_LEN))

\* the body of the try block of decode_order_filled_log: a record, or the
\* exception it raised
DecodeFields(log, payload) ==
    LET word(k) == PyInt16(PySlice(payload, k * WORD_HEX_LEN, (k + 1) * WORD_HEX_LEN))
        maker == topic_to_address(log.topics[3])
        taker == topic_to_address(log.topics[4])
    IN  IF \E k \in 0..(PAYLOAD_WORDS - 1) : ~word(k).ok THEN ValueError
        ELSE IF ~maker.ok \/ ~taker.ok THEN ValueError
        ELSE Ok([ kind             |-> "DecodedOrderFilledLog",
                  address          |-> Lower(log.address),
                  tx_hash          |-> Lower(log.transactionHash),
                  block_number     |-> parse_hex_int(log.blockNumber),
                  log_index        |-> parse_hex_int(log.logIndex),
                  maker            |-> maker.val,
                  taker            |-> taker.val,
                  maker_asset_id   |-> word(0).val,
                  taker_asset_id   |-> word(1).val,
                  maker_amount_raw |-> word(2).val,
                  taker_amount_raw |-> word(3).val,
                  fee_raw          |-> word(4).val ])

PayloadTooShort_FourWords(payload) == Len(payload) < WORD_HEX_LEN * (PAYLOAD_WORDS - 1)

\* the payload length test of the decoder
PayloadTooShort(payload) == Len(payload) < WORD_HEX_LEN * PAYLOAD_WORDS

\* decode_order_filled_log: None (no match) or a DecodedOrderFilledLog.
\* A raw log is [topicsIsList, topics, data, address, transactionHash,
\* blockNumber, logIndex]; topics are 1-based here (topics[1] is topic0).
decode_order_filled_log(log) ==
    IF ~log.topicsIsList \/ Len(log.topics) < 4 THEN None
    ELSE IF Lower(log.topics[1]) # ORDER_FILLED_TOPIC0 THEN None
    ELSE IF ~StartsWith0x(log.data) THEN None
    ELSE LET payload == SubSeq(log.data, 3, Len(log.data))
         IN  IF PayloadTooShort(payload) THEN None
             ELSE LET r == DecodeFields(log, payload)
                  IN  IF r.ok THEN r.val ELSE None   \* except Exception: return None

-----------------------------------------------------------------------------
(***************************************************************************)
(* Building raw logs: the encoder side, independent of the decoder         *)
(***************************************************************************)

\* n copies of character c
Repeat(c, n) == [i \in 1..n |-> c]

\* hex digits the model's integers need (values stay below 16^7)
ValueHexDigits == 7

\* v as a 32-byte big-endian word, 64 hex characters
EncodeWord(v, digits) ==
    [i \in 1..WORD_HEX_LEN |->
        IF i <= WORD_HEX_LEN - ValueHexDigits THEN "0"
        ELSE digits[((v \div Pow(16, WORD_HEX_LEN - i)) % 16) + 1]]

\* the five words of an OrderFilled payload
EncodeData(vals, digits) ==
    EncodeWord(vals[1], digits) \o EncodeWord(vals[2], digits) \o
    EncodeWord(vals[3], digits) \o EncodeWord(vals[4], digits) \o
    EncodeWord(vals[5], digits)

\* a 20-byte address left-padded to a 32-byte topic, pad being the 24 high
\* hex characters
EncodeTopic(prefix, pad, addrDigits) == prefix \o pad \o addrDigits

-----------------------------------------------------------------------------
(***************************************************************************)
(* Decoder harness: one raw log is drawn, decode_order_filled_log is       *)
(* applied to it once.                                                     *)
(***************************************************************************)

MakerAddrDigits ==
    << "0", "0", "A", "1", "b", "2", "C", "3", "d", "4", "E", "5", "f", "6", "0", "7",
       "1", "8", "2", "9", "3", "a", "4", "B", "5", "c", "6", "D", "7", "e", "8", "F",
       "9", "0", "a", "B", "c", "D", "e", "F" >>

ExchangeAddrDigits == SubSeq(CTF_EXCHANGE, 3, Len(CTF_EXCHANGE))

\* a topic0 that is another event's signature
OtherTopic0 == << "0", "x" >> \o Repeat("1", WORD_HEX_LEN)

\* the most topics a drawn log carries
MaxTopics == 5

TopicKinds == { "padded", "dirty", "bare", "short", "nonhex" }

\* an indexed topic carrying addrDigits, in the shapes a provider may send
BuildTopic(kind, addrDigits) ==
    CASE kind = "padded" -> EncodeTopic(<< "0", "x" >>, Repeat("0", 24), addrDigits)
      [] kind = "dirty"  -> EncodeTopic(<< "0", "X" >>, Repeat("F", 24), addrDigits)
      [] kind = "bare"   -> EncodeTopic(<< >>, Repeat("0", 24), addrDigits)
      [] kind = "short"  -> EncodeTopic(<< "0", "x" >>, Repeat("0", 23), addrDigits)
      [] kind = "nonhex" -> EncodeTopic(<< "0", "x" >>, Repeat("z", 24), addrDigits)

DataKinds ==
    { "absent", "noprefix", "upperprefix", "short", "garbage", "exact", "long",
      "nonhex" }

BuildData(kind, vals, digits) ==
    LET body == EncodeData(vals, digits)
    IN  CASE kind = "absent"      -> << >>
          [] kind = "noprefix"    -> body
          [] kind = "upperprefix" -> << "0", "X" >> \o body
          [] kind = "short"       -> << "0", "x" >> \o SubSeq(body, 1, Len(body) - 1)
          [] kind = "garbage"     -> << "0", "x", "z", "z" >>
          [] kind = "exact"       -> << "0", "x" >> \o body
          [] kind = "long"        -> << "0", "x" >> \o body \o << "a", "b", "c" >>
          [] kind = "nonhex"      -> << "0", "x" >> \o SubSeq(body, 1, Len(body) - 1) \o << "g" >>

\* number of characters after the 0x prefix
PayloadLen(kind) ==
    CASE kind \in { "absent" }           -> 0
      [] kind \in { "garbage" }          -> 2
      [] kind \in { "short" }            -> WORD_HEX_LEN * PAYLOAD_WORDS - 1
      [] kind \in { "long" }             -> WORD_HEX_LEN * PAYLOAD_WORDS + 3
      [] OTHER                           -> WORD_HEX_LEN * PAYLOAD_WORDS

\* (maker_asset_id, taker_asset_id, maker_amount_raw, taker_amount_raw, fee_raw)
DecValues ==
    { << 77, 0, 5000000, 2500000, 0 >>,
      << 0, 78, 1250000, 3000000, 1500 >>,
      << 77, 78, 0, 11259375, 2 >> }

DecSources ==
    [ nTopics    : 0..MaxTopics,
      sig        : { "match", "upper", "other" },
      makerTopic : TopicKinds,
      takerTopic : { "padded", "short" },
      data       : DataKinds,
      vals       : DecValues,
      upper      : BOOLEAN,
      topicsIsList : BOOLEAN ]

HexTx1 == << "0", "x", "A", "b", "1" >>

BuildLog(src) ==
    LET digits == IF src.upper THEN UpperHexDigits ELSE LowerHexDigits
        topic0 == CASE src.sig = "match" -> ORDER_FILLED_TOPIC0
                    [] src.sig = "upper" ->
                         << "0", "x" >> \o
                         [i \in 1..WORD_HEX_LEN |->
                            UpperHexDigits[HexDigitValue[ORDER_FILLED_TOPIC0[i + 2]] + 1]]
                    [] src.sig = "other" -> OtherTopic0
        all == << topic0,
                  BuildTopic("padded", MakerAddrDigits),
                  BuildTopic(src.makerTopic, MakerAddrDigits),
                  BuildTopic(src.takerTopic, ExchangeAddrDigits),
                  OtherTopic0,
                  OtherTopic0 >>
    IN  [ topicsIsList    |-> src.topicsIsList,
          topics          |-> SubSeq(all, 1, src.nTopics),
          data            |-> BuildData(src.data, src.vals, digits),
          address         |-> CTF_EXCHANGE,
          transactionHash |-> HexTx1,
          blockNumber     |-> << "0", "x", "1", "0" >>,
          logIndex        |-> << "0", "x", "3" >> ]

Pending == [kind |-> "pending"]

DecodeIdle ==
    /\ dec_src = None
    /\ dec_log = None
    /\ dec_result = Pending
    /\ dec_pc = "idle"

DecodeInit ==
    /\ dec_src \in { s \in DecSources :
                       \* one representative of the combinations that differ only
                       \* in fields the decoder never reaches
                       /\ (s.topicsIsList \/ (s.nTopics = 4 /\ s.data = "exact"))
                       /\ (s.upper => s.data \in { "exact", "short" }) }
    /\ dec_log = BuildLog(dec_src)
    /\ dec_result = Pending
    /\ dec_pc = "call"

DecodeCall ==
    /\ dec_pc = "call"
    /\ dec_result' = decode_order_filled_log(dec_log)
    /\ dec_pc' = "done"
    /\ UNCHANGED << dec_log, dec_src >>
    /\ DecodeFrame

DecodeNext == DecodeCall

\* a log that is an OrderFilled log in the wire format: a list of at least
\* four topics, topic0 the signature, 0x-prefixed 32-byte indexed topics, a
\* 0x-prefixed payload of at least five hex words
WellFormedSource(s) ==
    /\ s.topicsIsList
    /\ s.nTopics >= 4
    /\ s.sig \in { "match", "upper" }
    /\ s.makerTopic \in { "padded", "dirty" }
    /\ s.takerTopic = "padded"
    /\ s.data \in { "exact", "long" }

\* C5: a log with fewer than 4 topics, another topic0, or fewer than 320
\* payload characters after the 0x prefix is answered with None (no match,
\* no exception), whatever its topics and payload otherwise hold.
C5_NoMatchOnShortOrForeignLog ==
    (dec_pc = "done" /\
       (\/ dec_src.nTopics < 4
        \/ dec_src.sig = "other"
        \/ PayloadLen(dec_src.data) < 320))
    => dec_result = None

C5_Witness ==
    /\ dec_pc = "done"
    /\ dec_src.topicsIsList /\ dec_src.nTopics = 4 /\ dec_src.sig = "match"
    /\ dec_src.makerTopic = "padded" /\ dec_src.takerTopic = "padded"
    /\ dec_src.data = "short"
    /\ dec_result = None

\* C6: for a well-formed log, maker and taker are 0x plus the lower-cased low
\* 40 hex characters of topics[2] and topics[3], and the five integers are
\* the big-endian values of the five consecutive 64-character chunks.
C6_WellFormedLogDecodes ==
    (dec_pc = "done" /\ WellFormedSource(dec_src))
    => /\ dec_result.kind = "DecodedOrderFilledLog"
       /\ dec_result.maker = << "0", "x" >> \o Lower(MakerAddrDigits)
       /\ dec_result.taker = << "0", "x" >> \o Lower(ExchangeAddrDigits)
       /\ << dec_result.maker_asset_id, dec_result.taker_asset_id,
             dec_result.maker_amount_raw, dec_result.taker_amount_raw,
             dec_result.fee_raw >> = dec_src.vals

C6_Witness ==
    /\ dec_pc = "done"
    /\ WellFormedSource(dec_src)
    /\ dec_src.makerTopic = "dirty"
    /\ dec_src.upper
    /\ dec_result.kind = "DecodedOrderFilledLog"
    /\ dec_result.maker_amount_raw = 5000000
    /\ dec_result.taker = CTF_EXCHANGE

-----------------------------------------------------------------------------
(***************************************************************************)
(* export_market_trades_chain.py: block-timestamp resolver.  main() asks   *)
(* for the latest block, then runs _find_first_block_ge_ts and             *)
(* _find_last_block_le_ts over [1, latest_block] with one shared cache.    *)
(***************************************************************************)

\* the highest block number and the highest timestamp of a drawn chain
MaxLatest == 4
MaxTs == 4

\* hex text of a small number, as a JSON-RPC quantity ("0x" and two digits)
HexText(n) ==
    << "0", "x", LowerHexDigits[((n \div 256) % 16) + 1],
       LowerHexDigits[((n \div 16) % 16) + 1], LowerHexDigits[(n % 16) + 1] >>

\* result of eth_getBlockByNumber for a block of the chain
BlockPayload(block_number) == [ timestamp |-> HexText(chain_ts[block_number]) ]

\* _get_block_timestamp, given the RPC answered
_get_block_timestamp(block_number) == PyInt16(BlockPayload(block_number).timestamp).val

_cached_block_ts_NoTest(block_number, cache) ==
    [ ts        |-> _get_block_timestamp(block_number),
      cache     |-> [ b \in DOMAIN cache \cup { block_number } |->
                        IF b = block_number THEN _get_block_timestamp(block_number)
                        ELSE cache[b] ],
      requested |-> << block_number >> ]

\* _cached_block_ts: the timestamp, the cache afterwards, and the block
\* numbers whose timestamp was requested from the RPC on the way
_cached_block_ts(block_number, cache) ==
    IF block_number \in DOMAIN cache
    THEN [ ts |-> cache[block_number], cache |-> cache, requested |-> << >> ]
    ELSE LET t == _get_block_timestamp(block_number)
         IN  [ ts |-> t, cache |-> cache @@ (block_number :> t),
               requested |-> << block_number >> ]

EmptyCache == [ b \in {} |-> 0 ]

\* the request counts after the calls for the given block numbers
RECURSIVE Requested(_, _)
Requested(counts, blocks) ==
    IF blocks = << >> THEN counts
    ELSE Requested([ b \in DOMAIN counts \cup { Head(blocks) } |->
                       IF b = Head(blocks)
                       THEN (IF b \in DOMAIN counts THEN counts[b] ELSE 0) + 1
                       ELSE counts[b] ],
                   Tail(blocks))

NonDecreasing(ts) == \A i \in 1..(Len(ts) - 1) : ts[i] <= ts[i + 1]

FirstMid_RoundUp(lo, hi) == (lo + hi + 1) \div 2

\* the midpoint probed by _find_first_block_ge_ts
FirstMid(lo, hi) == (lo + hi) \div 2

LastMid_RoundDown(lo, hi) == (lo + hi) \div 2

\* the midpoint probed by _find_last_block_le_ts
LastMid(lo, hi) == (lo + hi + 1) \div 2

BisectIdle ==
    /\ scan_start_ts = 0
    /\ scan_end_ts = 0
    /\ bis_lo = 0
    /\ bis_hi = 0
    /\ bis_iter = 0
    /\ bis_start_block = 0
    /\ bis_end_block = 0
    /\ bis_pc = "idle"

ChainIdle ==
    /\ chain_ts = << >>
    /\ latest_block = 0
    /\ block_ts_cache = EmptyCache
    /\ ts_requests = EmptyCache

BisectInit ==
    /\ latest_block \in 1..MaxLatest
    /\ chain_ts \in { ts \in [1..latest_block -> 1..MaxTs] : NonDecreasing(ts) }
    /\ scan_start_ts \in 0..(MaxTs + 1)
    /\ scan_end_ts \in 0..(MaxTs + 1)
    /\ block_ts_cache = EmptyCache
    /\ ts_requests = EmptyCache
    /\ bis_lo = 1
    /\ bis_hi = latest_block
    /\ bis_iter = 0
    /\ bis_start_block = 0
    /\ bis_end_block = 0
    /\ bis_pc = "first"

\* one iteration of the loop of _find_first_block_ge_ts
FirstProbe ==
    /\ bis_pc = "first"
    /\ bis_lo < bis_hi
    /\ bis_iter <= MaxLatest
    /\ LET mid == FirstMid(bis_lo, bis_hi)
           r   == _cached_block_ts(mid, block_ts_cache)
       IN  /\ block_ts_cache' = r.cache
           /\ ts_requests' = Requested(ts_requests, r.requested)
           /\ IF r.ts < scan_start_ts
              THEN bis_lo' = mid + 1 /\ bis_hi' = bis_hi
              ELSE bis_hi' = mid /\ bis_lo' = bis_lo
    /\ bis_iter' = bis_iter + 1
    /\ UNCHANGED << chain_ts, latest_block, scan_start_ts, scan_end_ts,
                    bis_start_block, bis_end_block, bis_pc >>
    /\ BisectFrame

\* _find_first_block_ge_ts returns lo; main() goes on to _find_last_block_le_ts
FirstReturn ==
    /\ bis_pc = "first"
    /\ ~(bis_lo < bis_hi)
    /\ bis_start_block' = bis_lo
    /\ bis_lo' = 1
    /\ bis_hi' = latest_block
    /\ bis_iter' = 0
    /\ bis_pc' = "last"
    /\ UNCHANGED << chain_ts, latest_block, block_ts_cache, ts_requests,
                    scan_start_ts,
                    scan_end_ts, bis_end_block >>
    /\ BisectFrame

\* one iteration of the loop of _find_last_block_le_ts
LastProbe ==
    /\ bis_pc = "last"
    /\ bis_lo < bis_hi
    /\ bis_iter <= MaxLatest
    /\ LET mid == LastMid(bis_lo, bis_hi)
           r   == _cached_block_ts(mid, block_ts_cache)
       IN  /\ block_ts_cache' = r.cache
           /\ ts_requests' = Requested(ts_requests, r.requested)
           /\ IF r.ts > scan_end_ts
              THEN bis_hi' = mid - 1 /\ bis_lo' = bis_lo
              ELSE bis_lo' = mid /\ bis_hi' = bis_hi
    /\ bis_iter' = bis_iter + 1
    /\ UNCHANGED << chain_ts, latest_block, scan_start_ts, scan_end_ts,
                    bis_start_block, bis_end_block, bis_pc >>
    /\ BisectFrame

LastReturn ==
    /\ bis_pc = "last"
    /\ ~(bis_lo < bis_hi)
    /\ bis_end_block' = bis_lo
    /\ bis_pc' = "done"
    /\ UNCHANGED << chain_ts, latest_block, block_ts_cache, ts_requests,
                    scan_start_ts,
                    scan_end_ts, bis_lo, bis_hi, bis_iter, bis_start_block >>
    /\ BisectFrame

\* the RPC call of a probe of an uncached block fails after its retries: the
\* exception leaves the search and main()
ProbeRaises ==
    /\ bis_pc \in { "first", "last" }
    /\ bis_lo < bis_hi
    /\ LET mid == IF bis_pc = "first" THEN FirstMid(bis_lo, bis_hi)
                  ELSE LastMid(bis_lo, bis_hi)
       IN  /\ mid \notin DOMAIN block_ts_cache
           /\ ts_requests' = Requested(ts_requests, << mid >>)
    /\ bis_pc' = "raised"
    /\ UNCHANGED << chain_ts, latest_block, block_ts_cache, scan_start_ts, scan_end_ts, bis_lo, bis_hi, bis_iter,
                    bis_start_block, bis_end_block >>
    /\ BisectFrame

BisectNext == FirstProbe \/ FirstReturn \/ LastProbe \/ LastReturn \/ ProbeRaises

\* the request count of one block number
RequestsOf(counts, b) == IF b \in DOMAIN counts THEN counts[b] ELSE 0

\* C3 as stated: whatever the target, the block returned by
\* _find_first_block_ge_ts has ts >= T and its predecessor has ts < T.
C3_Original_FirstBlockForEveryTarget ==
    (bis_start_block # 0)
    => /\ chain_ts[bis_start_block] >= scan_start_ts
       /\ (bis_start_block = 1 \/ chain_ts[bis_start_block - 1] < scan_start_ts)

\* C3 amended: when some block has ts >= T (T <= ts(latest)), the result is
\* the smallest such block; when none has, the result is latest, whose
\* timestamp is below T.
C3_FirstBlockGeTs ==
    (bis_start_block # 0)
    => /\ bis_start_block \in 1..latest_block
       /\ (chain_ts[latest_block] >= scan_start_ts
             => /\ chain_ts[bis_start_block] >= scan_start_ts
                /\ (bis_start_block = 1
                      \/ chain_ts[bis_start_block - 1] < scan_start_ts))
       /\ (chain_ts[latest_block] < scan_start_ts => bis_start_block = latest_block)

C3_Witness ==
    /\ bis_start_block = 3
    /\ latest_block = 4
    /\ chain_ts[2] < scan_start_ts
    /\ chain_ts[3] = scan_start_ts
    /\ chain_ts[4] = scan_start_ts

\* C4 as stated: whatever the target, the block returned by
\* _find_last_block_le_ts has ts <= T and its successor has ts > T.
C4_Original_LastBlockForEveryTarget ==
    (bis_end_block # 0)
    => /\ bis_end_block \in 1..latest_block
       /\ chain_ts[bis_end_block] <= scan_end_ts
       /\ (bis_end_block = latest_block \/ chain_ts[bis_end_block + 1] > scan_end_ts)

\* C4 amended: when some block has ts <= T (ts(1) <= T), the result is the
\* largest such block; when none has, the result is block 1, whose timestamp
\* is above T.  The loop ends within latest - 1 iterations with
\* 1 <= result <= latest.
C4_LastBlockLeTs ==
    /\ (bis_pc = "last" => bis_iter + (bis_hi - bis_lo) <= latest_block - 1)
    /\ (bis_pc = "last" => 1 <= bis_lo /\ bis_lo <= bis_hi /\ bis_hi <= latest_block)
    /\ (bis_end_block # 0)
       => /\ bis_end_block \in 1..latest_block
          /\ (chain_ts[1] <= scan_end_ts
                => /\ chain_ts[bis_end_block] <= scan_end_ts
                   /\ (bis_end_block = latest_block
                         \/ chain_ts[bis_end_block + 1] > scan_end_ts))
          /\ (chain_ts[1] > scan_end_ts => bis_end_block = 1)

C4_Witness ==
    /\ bis_end_block = 2
    /\ latest_block = 4
    /\ chain_ts[1] = scan_end_ts
    /\ chain_ts[2] = scan_end_ts
    /\ chain_ts[3] > scan_end_ts

-----------------------------------------------------------------------------
(***************************************************************************)
(* export_market_trades_chain.py: the backfill normalizer                  *)
(*                                                                         *)
(* Decimal amounts are kept exact: Decimal(raw) / 10^6 is the pair         *)
(* [raw, exp], and a price is the fraction notional / size of the two      *)
(* decimals, [num, den].  The text of a row's decimals (_decimal_to_str)   *)
(* and its trade_utc are not part of the model.                            *)
(***************************************************************************)

POLYGON_EXCHANGE == CTF_EXCHANGE

USDC_DECIMALS == 6

\* Decimal(raw) / (Decimal(10) ** USDC_DECIMALS)
ScaledDecimal(raw) == [ raw |-> raw, exp |-> USDC_DECIMALS ]

\* notional_dec / size_dec, both scaled alike
Quotient(notional_raw, size_raw) == [ num |-> notional_raw, den |-> size_raw ]

\* Decimal("0")
ZeroPrice == [ num |-> 0, den |-> 1 ]

DecimalDigits == << "0", "1", "2", "3", "4", "5", "6", "7", "8", "9" >>

\* str(n) of a non-negative integer
RECURSIVE IntText(_)
IntText(n) ==
    IF n < 10 THEN << DecimalDigits[n + 1] >>
    ELSE IntText(n \div 10) \o << DecimalDigits[(n % 10) + 1] >>

\* f"{tx_hash}:{log_index}"
LogUid(tx_hash, log_index) == tx_hash \o << ":" >> \o IntText(log_index)

\* _topic_to_address of the script
_topic_to_address(topic_hex) ==
    LET clean == RemovePrefix0x(Lower(topic_hex))
    IN  IF Len(clean) # WORD_HEX_LEN THEN [ ok |-> FALSE, exc |-> "RuntimeError" ]
        ELSE Ok(<< "0", "x" >> \o PyTail(clean, ADDRESS_HEX_LEN))

\* _extract_block_timestamp: the log's own blockTimestamp, 0 when it has none
_extract_block_timestamp(log) ==
    IF log.hasBlockTimestamp THEN PyInt16(log.blockTimestamp) ELSE Ok(0)

ClassifySide_IgnoreQuoteLeg(maker_asset_id, taker_asset_id, maker_amount_raw, taker_amount_raw, token_to_outcome) ==
    IF maker_asset_id \in DOMAIN token_to_outcome
    THEN [ kind |-> "side", side |-> "SELL", token_id |-> maker_asset_id,
           size_raw |-> maker_amount_raw, notional_raw |-> taker_amount_raw ]
    ELSE IF taker_asset_id \in DOMAIN token_to_outcome
    THEN [ kind |-> "side", side |-> "BUY", token_id |-> taker_asset_id,
           size_raw |-> taker_amount_raw, notional_raw |-> maker_amount_raw ]
    ELSE None

\* the side decision of _normalize_trade_from_log
ClassifySide(maker_asset_id, taker_asset_id, maker_amount_raw, taker_amount_raw, token_to_outcome) ==
    IF maker_asset_id \in DOMAIN token_to_outcome /\ taker_asset_id = USDC_ASSET_ID
    THEN [ kind |-> "side", side |-> "SELL", token_id |-> maker_asset_id,
           size_raw |-> maker_amount_raw, notional_raw |-> taker_amount_raw ]
    ELSE IF taker_asset_id \in DOMAIN token_to_outcome /\ maker_asset_id = USDC_ASSET_ID
    THEN [ kind |-> "side", side |-> "BUY", token_id |-> taker_asset_id,
           size_raw |-> taker_amount_raw, notional_raw |-> maker_amount_raw ]
    ELSE None

BackfillPrice_NoZeroGuard(size_raw, notional_raw) == Quotient(notional_raw, size_raw)

\* price_dec = Decimal("0") if size_dec == 0 else notional_dec / size_dec
BackfillPrice(size_raw, notional_raw) ==
    IF size_raw = 0 THEN ZeroPrice ELSE Quotient(notional_raw, size_raw)

NormNone(cache) == [ kind |-> "None", cache |-> cache, requested |-> << >> ]
NormRaise(cache) == [ kind |-> "Raise", cache |-> cache, requested |-> << >> ]

\* the exception of an eth_getBlockByNumber call that failed
NormRaiseRpc(cache, block_number) ==
    [ kind |-> "Raise", cache |-> cache, requested |-> << block_number >> ]

\* _normalize_trade_from_log from the side decision on: the row, with the
\* timestamp looked up through the cache when the log carries none.  rpc_ok
\* tells whether an eth_getBlockByNumber call, if one is made, succeeds.
NormalizeRow(log, maker, words, token_to_outcome, cache, rpc_ok) ==
    LET c == ClassifySide(words[1], words[2], words[3], words[4], token_to_outcome)
        block_number == PyInt16(log.blockNumber)
        own_ts == _extract_block_timestamp(log)
        log_index == PyInt16(log.logIndex)
        tx_hash == Lower(log.transactionHash)
    IN  IF c = None THEN NormNone(cache)
        ELSE IF ~block_number.ok \/ ~own_ts.ok THEN NormRaise(cache)
        ELSE IF own_ts.val = 0 /\ block_number.val \notin DOMAIN cache /\ ~rpc_ok
        THEN NormRaiseRpc(cache, block_number.val)
        ELSE IF ~log_index.ok THEN NormRaise(cache)
        ELSE LET looked == IF own_ts.val = 0
                           THEN _cached_block_ts(block_number.val, cache)
                           ELSE [ ts |-> own_ts.val, cache |-> cache, requested |-> << >> ]
             IN  [ kind  |-> "row",
                   cache |-> looked.cache,
                   requested |-> looked.requested,
                   row   |-> [ tx_hash          |-> tx_hash,
                               log_index        |-> log_index.val,
                               log_uid          |-> LogUid(tx_hash, log_index.val),
                               block_number     |-> block_number.val,
                               trade_timestamp  |-> looked.ts,
                               proxy_wallet     |-> maker,
                               side             |-> c.side,
                               outcome          |-> token_to_outcome[c.token_id],
                               asset            |-> c.token_id,
                               size             |-> ScaledDecimal(c.size_raw),
                               price            |-> BackfillPrice(c.size_raw, c.notional_raw),
                               notional         |-> ScaledDecimal(c.notional_raw),
                               fee              |-> ScaledDecimal(words[5]),
                               maker_asset_id   |-> words[1],
                               taker_asset_id   |-> words[2],
                               maker_amount_raw |-> words[3],
                               taker_amount_raw |-> words[4],
                               fee_raw          |-> words[5] ] ]

\* _normalize_trade_from_log: [kind |-> "row", row, cache], or None, or the
\* exception it lets through (the payload integers are parsed outside any try)
_normalize_trade_from_log(log, token_to_outcome, cache, rpc_ok) ==
    IF ~log.topicsIsList \/ Len(log.topics) < 4 THEN NormNone(cache)
    ELSE LET maker == _topic_to_address(log.topics[3])
             taker == _topic_to_address(log.topics[4])
         IN  IF ~maker.ok \/ ~taker.ok THEN NormNone(cache)
             ELSE IF taker.val # POLYGON_EXCHANGE THEN NormNone(cache)
             ELSE IF ~StartsWith0x(log.data) THEN NormNone(cache)
             ELSE LET body == SubSeq(log.data, 3, Len(log.data))
                      word(k) == PyInt16(PySlice(body, k * WORD_HEX_LEN,
                                                 (k + 1) * WORD_HEX_LEN))
                  IN  IF Len(body) < WORD_HEX_LEN * PAYLOAD_WORDS THEN NormNone(cache)
                      ELSE IF \E k \in 0..(PAYLOAD_WORDS - 1) : ~word(k).ok
                      THEN NormRaise(cache)
                      ELSE NormalizeRow(log, maker.val,
                                        [k \in 1..PAYLOAD_WORDS |-> word(k - 1).val],
                                        token_to_outcome, cache, rpc_ok)

-----------------------------------------------------------------------------
(***************************************************************************)
(* Logs as the chain holds them, for the backfill and the real-time path   *)
(***************************************************************************)

\* text of a transaction hash (shortened), by number
TxText(n) == << "0", "x", "A", "b" >> \o HexText(n)

OtherAddrDigits == Repeat("9", ADDRESS_HEX_LEN)

\* the raw log of a fill: src is [tx, index, block, vals, taker, address, ts]
\* with taker "exchange" or "other" and ts the blockTimestamp (0: absent)
BuildFillLog(src) ==
    [ topicsIsList      |-> TRUE,
      topics            |-> << ORDER_FILLED_TOPIC0,
                               BuildTopic("padded", MakerAddrDigits),
                               BuildTopic("dirty", MakerAddrDigits),
                               BuildTopic("padded",
                                          IF src.taker = "exchange"
                                          THEN ExchangeAddrDigits
                                          ELSE OtherAddrDigits) >>,
      data              |-> << "0", "x" >> \o EncodeData(src.vals, UpperHexDigits),
      address           |-> src.address,
      transactionHash   |-> TxText(src.tx),
      blockNumber       |-> HexText(src.block),
      logIndex          |-> HexText(src.index),
      hasBlockTimestamp |-> src.ts # 0,
      blockTimestamp    |-> HexText(src.ts) ]

\* token_to_outcome of the tracked market (99 is a token of no tracked market)
MarketTokens == (77 :> "Up") @@ (78 :> "Down")

-----------------------------------------------------------------------------
(***************************************************************************)
(* Normalizer harness: one fill log is drawn and normalized once           *)
(***************************************************************************)

NormAssets == { USDC_ASSET_ID, 77, 78, 99 }
NormAmounts == { 0, 2500000, 5000000 }

NormSources ==
    [ tx      : { 1 },
      index   : { 3 },
      block   : { 2 },
      vals    : { << m, t, ma, ta, 0 >> :
                    m \in NormAssets, t \in NormAssets,
                    ma \in NormAmounts, ta \in NormAmounts },
      taker   : { "exchange" },
      address : { CTF_EXCHANGE },
      ts      : { 0, 7 } ]

NormalizeIdle ==
    /\ norm_src = None
    /\ norm_tokens = MarketTokens
    /\ norm_result = Pending
    /\ norm_pc = "idle"

NormalizeInit ==
    /\ norm_src \in NormSources
    /\ norm_tokens \in { MarketTokens, (77 :> "Up"), [ t \in {} |-> "" ] }
    /\ norm_result = Pending
    /\ norm_pc = "call"
    /\ latest_block = MaxLatest
    /\ chain_ts = [ b \in 1..MaxLatest |-> 4 + b ]
    /\ block_ts_cache = EmptyCache
    /\ ts_requests = EmptyCache

NormalizeCall ==
    /\ norm_pc = "call"
    /\ \E rpc_ok \in BOOLEAN :
          LET r == _normalize_trade_from_log(BuildFillLog(norm_src), norm_tokens,
                                             block_ts_cache, rpc_ok)
          IN  /\ norm_result' = IF r.kind = "row" THEN r.row ELSE [ kind |-> r.kind ]
              /\ block_ts_cache' = r.cache
              /\ ts_requests' = Requested(ts_requests, r.requested)
    /\ norm_pc' = "done"
    /\ UNCHANGED << norm_src, norm_tokens, chain_ts, latest_block >>
    /\ NormalizeFrame

NormalizeNext == NormalizeCall

IsRow(r) == "side" \in DOMAIN r

\* C7: for a decoded fill (taker = exchange) that is normalized, the result is
\* SELL with size = maker amount and notional = taker amount exactly when the
\* maker asset is a tracked token and the taker asset is the quote asset;
\* BUY with size = taker amount and notional = maker amount exactly when the
\* taker asset is tracked and the maker asset is the quote asset; and no
\* trade for every other pair of asset ids.
C7_BackfillClassification ==
    (norm_pc = "done" /\ norm_result # [ kind |-> "Raise" ])
    => LET m    == norm_src.vals[1]
           t    == norm_src.vals[2]
           sell == m \in DOMAIN norm_tokens /\ t = 0
           buy  == t \in DOMAIN norm_tokens /\ m = 0
       IN  /\ sell <=> (IsRow(norm_result) /\ norm_result.side = "SELL")
           /\ buy <=> (IsRow(norm_result) /\ norm_result.side = "BUY")
           /\ (~sell /\ ~buy) <=> norm_result = None
           /\ sell => /\ norm_result.size = ScaledDecimal(norm_src.vals[3])
                      /\ norm_result.notional = ScaledDecimal(norm_src.vals[4])
                      /\ norm_result.asset = m
           /\ buy => /\ norm_result.size = ScaledDecimal(norm_src.vals[4])
                     /\ norm_result.notional = ScaledDecimal(norm_src.vals[3])
                     /\ norm_result.asset = t

\* maker_asset = 77, taker_asset = 0, amounts 5_000_000 / 2_500_000 against a
\* market tracking 77: SELL, size 5.0, notional 2.5, price 0.5
C7_Witness ==
    /\ norm_pc = "done"
    /\ norm_src.vals = << 77, 0, 5000000, 2500000, 0 >>
    /\ 77 \in DOMAIN norm_tokens
    /\ IsRow(norm_result)
    /\ norm_result.side = "SELL"
    /\ norm_result.size.raw = 5 * Pow(10, norm_result.size.exp)
    /\ 2 * norm_result.notional.raw = 5 * Pow(10, norm_result.notional.exp)
    /\ 2 * norm_result.price.num = norm_result.price.den

-----------------------------------------------------------------------------
(***************************************************************************)
(* export_market_trades_chain.py: _scan_market_trades                      *)
(***************************************************************************)

\* highest block of the scanned chain, widest span asked for, and the number
\* of eth_getLogs pages after which a scan that makes no progress is cut off
MaxScanBlock == 4
MaxSpan == 3
MaxRanges == 6

\* a page of this many logs keeps the span from growing back (2000 in the
\* source, scaled to the pages the modelled chain can hold)
HeavyPageLogs == 3

\* "0x" + "0" * 24 + POLYGON_EXCHANGE[2:]
exchange_topic == << "0", "x" >> \o Repeat("0", 24) \o SubSeq(POLYGON_EXCHANGE, 3, Len(POLYGON_EXCHANGE))

\* the filter of the eth_getLogs request, as the provider applies it
MatchesFilter(log) ==
    /\ Lower(log.address) = POLYGON_EXCHANGE
    /\ Len(log.topics) >= 4
    /\ Lower(log.topics[1]) = ORDER_FILLED_TOPIC0
    /\ Lower(log.topics[4]) = exchange_topic

RECURSIVE SelectLogs(_, _)
SelectLogs(logs, i) ==
    IF i > Len(logs) THEN << >>
    ELSE (IF MatchesFilter(logs[i]) THEN << logs[i] >> ELSE << >>) \o SelectLogs(logs, i + 1)

\* the list eth_getLogs answers for fromBlock..toBlock
RECURSIVE GetLogs(_, _)
GetLogs(from_block, to_block) ==
    IF from_block > to_block THEN << >>
    ELSE SelectLogs(chain_logs[from_block], 1) \o GetLogs(from_block + 1, to_block)

\* the for loop over a page: rows and cache afterwards, and whether
\* _normalize_trade_from_log raised on the way
RECURSIVE NormalizePage(_, _, _, _, _, _)
NormalizePage(logs, i, acc, cache, requested, rpc_ok) ==
    IF i > Len(logs)
    THEN [ raised |-> FALSE, rows |-> acc, cache |-> cache, requested |-> requested ]
    ELSE LET r == _normalize_trade_from_log(logs[i], MarketTokens, cache, rpc_ok)
         IN  CASE r.kind = "Raise" -> [ raised |-> TRUE, rows |-> acc, cache |-> r.cache,
                                        requested |-> requested \o r.requested ]
               [] r.kind = "None"  ->
                    NormalizePage(logs, i + 1, acc, r.cache, requested \o r.requested, rpc_ok)
               [] r.kind = "row"   ->
                    NormalizePage(logs, i + 1, Append(acc, r.row), r.cache,
                                  requested \o r.requested, rpc_ok)

NextCurrent_SkipBlock(to_block) == to_block + 2

\* current = to_block + 1
NextCurrent(to_block) == to_block + 1

ShrunkSpan_NoFloor == span \div 2

ShrunkSpan_Same == span

\* span = max(min_span, span // 2)
ShrunkSpan == Max(min_span, span \div 2)

GrownSpan_Uncapped(n) == IF span < initial_span /\ n < HeavyPageLogs THEN span * 2 ELSE span

\* the span after a page of n logs
GrownSpan(n) ==
    IF span < initial_span /\ n < HeavyPageLogs THEN Min(initial_span, span * 2) ELSE span

Fill(tx, index, block, vals, taker, ts) ==
    BuildFillLog([ tx |-> tx, index |-> index, block |-> block, vals |-> vals,
                   taker |-> taker, address |-> CTF_EXCHANGE, ts |-> ts ])

\* a chain with a sell, a buy whose token leg is zero, a fill of a token of
\* another market, a fill the request's filter leaves out, and an empty block
MixedChain ==
    [ b \in 1..MaxScanBlock |->
        CASE b = 1 -> << Fill(1, 0, 1, << 77, 0, 20000, 10000, 0 >>, "exchange", 0) >>
          [] b = 2 -> << Fill(2, 1, 2, << 0, 78, 10000, 0, 0 >>, "exchange", 6),
                         Fill(2, 2, 2, << 99, 0, 20000, 10000, 0 >>, "exchange", 6),
                         Fill(2, 3, 2, << 77, 0, 20000, 10000, 0 >>, "other", 6) >>
          [] b = 4 -> << Fill(3, 0, 4, << 0, 77, 10000, 20000, 0 >>, "exchange", 0) >>
          [] OTHER -> << >> ]

\* a chain whose second block alone makes a heavy page
BusyChain ==
    [ b \in 1..MaxScanBlock |->
        CASE b = 2 -> << Fill(4, 0, 2, << 77, 0, 20000, 10000, 0 >>, "exchange", 6),
                         Fill(4, 1, 2, << 0, 78, 10000, 20000, 0 >>, "exchange", 6),
                         Fill(5, 2, 2, << 78, 0, 20000, 20000, 0 >>, "exchange", 6) >>
          [] OTHER -> << >> ]

\* the error classes of the backfill script
\* "k in msg" for two texts
Contains(msg, k) ==
    \E i \in 1..(Len(msg) - Len(k) + 1) : SubSeq(msg, i, i + Len(k) - 1) = k

RetryableKeywords ==
    { << "t", "i", "m", "e", "o", "u", "t" >>,
      << "t", "i", "m", "e", "d", " ", "o", "u", "t" >>,
      << "t", "o", "o", " ", "m", "a", "n", "y", " ", "r", "e", "q", "u", "e", "s", "t", "s" >>,
      << "4", "2", "9" >>,
      << "c", "o", "n", "n", "e", "c", "t", "i", "o", "n", " ", "r", "e", "s", "e", "t" >>,
      << "s", "e", "r", "v", "i", "c", "e", " ", "u", "n", "a", "v", "a", "i", "l", "a", "b", "l", "e" >>,
      << "g", "a", "t", "e", "w", "a", "y", " ", "t", "i", "m", "e", "o", "u", "t" >>,
      << "i", "n", "t", "e", "r", "n", "a", "l", " ", "e", "r", "r", "o", "r" >>,
      << "u", "n", "a", "u", "t", "h", "o", "r", "i", "z", "e", "d" >>,
      << "f", "o", "r", "b", "i", "d", "d", "e", "n" >>,
      << "a", "p", "i", " ", "k", "e", "y" >> }

_is_retryable_rpc_error_Always(message) == TRUE

\* _is_retryable_rpc_error
_is_retryable_rpc_error(message) ==
    \E k \in RetryableKeywords : Contains(Lower(message), k)

SpanTooWideKeywords ==
    { << "b", "l", "o", "c", "k", " ", "r", "a", "n", "g", "e", " ", "i", "s", " ", "t", "o", "o", " ", "l", "a", "r", "g", "e" >>,
      << "t", "o", "o", " ", "m", "a", "n", "y", " ", "r", "e", "s", "u", "l", "t", "s" >>,
      << "q", "u", "e", "r", "y", " ", "t", "i", "m", "e", "o", "u", "t" >>,
      << "r", "e", "s", "p", "o", "n", "s", "e", " ", "s", "i", "z", "e", " ", "e", "x", "c", "e", "e", "d", "e", "d" >>,
      << "l", "i", "m", "i", "t", " ", "e", "x", "c", "e", "e", "d", "e", "d" >>,
      << "m", "o", "r", "e", " ", "t", "h", "a", "n" >> }

_is_span_too_wide_error_Always(message) == TRUE

\* _is_span_too_wide_error
_is_span_too_wide_error(message) ==
    \E k \in SpanTooWideKeywords : Contains(Lower(message), k)

\* str(body["error"]) of the error responses a provider sends
MsgRequestTimeout == << "R", "e", "q", "u", "e", "s", "t", " ", "T", "i", "m", "e", "o", "u", "t" >>
MsgQueryTimeout == << "q", "u", "e", "r", "y", " ", "t", "i", "m", "e", "o", "u", "t" >>
MsgReverted == << "e", "x", "e", "c", "u", "t", "i", "o", "n", " ", "r", "e", "v", "e", "r", "t", "e", "d" >>
MsgRangeTooLarge == << "B", "l", "o", "c", "k", " ", "r", "a", "n", "g", "e", " ", "i", "s", " ", "t", "o", "o", " ", "l", "a", "r", "g", "e" >>

ErrorMessages == { MsgRequestTimeout, MsgQueryTimeout, MsgReverted, MsgRangeTooLarge }

\* a chain whose provider answers out of order and more than once: block 1
\* lists a later log first and carries a later second than the blocks after
\* it, block 2 lists one log twice, and block 3 lists that log again
ReplayedChain ==
    [ b \in 1..MaxScanBlock |->
        CASE b = 1 -> << Fill(1, 4, 1, << 77, 0, 20000, 10000, 0 >>, "exchange", 9),
                         Fill(1, 2, 1, << 0, 78, 10000, 20000, 0 >>, "exchange", 9) >>
          [] b = 2 -> << Fill(2, 1, 2, << 0, 77, 10000, 20000, 0 >>, "exchange", 6),
                         Fill(2, 1, 2, << 0, 77, 10000, 20000, 0 >>, "exchange", 6) >>
          [] b = 3 -> << Fill(6, 0, 3, << 78, 0, 20000, 10000, 0 >>, "exchange", 0),
                         Fill(2, 1, 2, << 0, 77, 10000, 20000, 0 >>, "exchange", 6) >>
          [] OTHER -> << >> ]

\* str(error) of the exceptions rpc.call("eth_getLogs") and the type test
\* after it raise
ErrRangeTooLarge == << "R", "P", "C", " ", "e", "r", "r", "o", "r", ":", " " >> \o MsgRangeTooLarge
ErrQueryTimeout == << "R", "P", "C", " ", "c", "a", "l", "l", " ", "f", "a", "i", "l", "e", "d", " ", "a", "f", "t", "e", "r", " ", "3", " ", "r", "e", "t", "r", "i", "e", "s", " ", "o", "n", " ", "m", "e", "t", "h", "o", "d", "=", "e", "t", "h", "_", "g", "e", "t", "L", "o", "g", "s", ".", " ", "l", "a", "s", "t", "_", "e", "r", "r", "o", "r", "=" >> \o MsgQueryTimeout
ErrReverted == << "R", "P", "C", " ", "e", "r", "r", "o", "r", ":", " " >> \o MsgReverted
ErrNotAList == << "U", "n", "e", "x", "p", "e", "c", "t", "e", "d", " ", "e", "t", "h", "_", "g", "e", "t", "L", "o", "g", "s", " ", "r", "e", "s", "p", "o", "n", "s", "e", " ", "t", "y", "p", "e", ":", " ", "<", "c", "l", "a", "s", "s", " ", "'", "d", "i", "c", "t", "'", ">" >>

ScanErrors == { ErrRangeTooLarge, ErrQueryTimeout, ErrReverted, ErrNotAList }

ScanIdle ==
    /\ chain_logs = << >>
    /\ start_block = 0
    /\ end_block = 0
    /\ initial_span = 0
    /\ min_span = 0
    /\ span = 0
    /\ current = 0
    /\ ranges = << >>
    /\ rows = << >>
    /\ scan_pc = "idle"
    /\ scan_error = EmptyText
    /\ scan_result = None
    /\ trades_csv = << >>
    /\ validation_json = None
    /\ written = {}

ScanInit ==
    /\ latest_block = MaxScanBlock
    /\ chain_ts = [ b \in 1..MaxScanBlock |-> 4 + b ]
    /\ block_ts_cache = EmptyCache
    /\ ts_requests = EmptyCache
    /\ chain_logs \in { MixedChain, BusyChain, ReplayedChain }
    /\ start_block \in 1..MaxScanBlock
    /\ end_block \in start_block..MaxScanBlock
    /\ initial_span \in 0..MaxSpan
    /\ min_span \in 0..MaxSpan
    /\ span = Max(1, initial_span)
    /\ current = start_block
    /\ ranges = << >>
    /\ rows = << >>
    /\ scan_pc = "loop"
    /\ scan_error = EmptyText
    /\ scan_result = None
    /\ trades_csv = << >>
    /\ validation_json = None
    /\ written = {}

ScanUnchangedArgs == UNCHANGED << chain_logs, start_block, end_block, initial_span,
                                  min_span, chain_ts, latest_block >>

\* main() writes nothing while the scan runs
ScanUnchangedFiles == UNCHANGED << trades_csv, validation_json, written >>

\* one iteration whose eth_getLogs call answers a list
ScanPage ==
    /\ scan_pc = "loop"
    /\ current <= end_block
    /\ Len(ranges) < MaxRanges
    /\ \E rpc_ok \in BOOLEAN :
          LET to_block == Min(current + span - 1, end_block)
              logs     == GetLogs(current, to_block)
              r        == NormalizePage(logs, 1, rows, block_ts_cache, << >>, rpc_ok)
          IN  /\ ranges' = Append(ranges, [ start_block |-> current,
                                            end_block   |-> to_block,
                                            logs_count  |-> Len(logs) ])
              /\ rows' = r.rows
              /\ block_ts_cache' = r.cache
              /\ ts_requests' = Requested(ts_requests, r.requested)
              /\ scan_error' = EmptyText
              /\ IF r.raised
                 THEN /\ scan_pc' = "raised"
                      /\ UNCHANGED << current, span >>
                 ELSE /\ current' = NextCurrent(to_block)
                      /\ span' = GrownSpan(Len(logs))
                      /\ UNCHANGED scan_pc
    /\ UNCHANGED scan_result
    /\ ScanUnchangedArgs
    /\ ScanUnchangedFiles
    /\ ScanFrame

\* one iteration whose eth_getLogs call fails with a "too wide" message
ScanTooWide ==
    /\ scan_pc = "loop"
    /\ current <= end_block
    /\ \E error \in ScanErrors :
         /\ _is_span_too_wide_error(Lower(error))
         /\ scan_error' = error
    /\ IF span > min_span
       THEN /\ span' = ShrunkSpan
            /\ UNCHANGED scan_pc
       ELSE /\ scan_pc' = "raised"
            /\ UNCHANGED span
    /\ UNCHANGED << current, ranges, rows, block_ts_cache, ts_requests, scan_result >>
    /\ ScanUnchangedArgs
    /\ ScanUnchangedFiles
    /\ ScanFrame

\* one iteration whose eth_getLogs call fails otherwise, or answers no list
ScanFatal ==
    /\ scan_pc = "loop"
    /\ current <= end_block
    /\ \E error \in ScanErrors :
         /\ ~_is_span_too_wide_error(Lower(error))
         /\ scan_error' = error
    /\ scan_pc' = "raised"
    /\ UNCHANGED << span, current, ranges, rows, block_ts_cache, ts_requests, scan_result >>
    /\ ScanUnchangedArgs
    /\ ScanUnchangedFiles
    /\ ScanFrame

\* the while condition fails: return rows, ranges
ScanReturn ==
    /\ scan_pc = "loop"
    /\ current > end_block
    /\ scan_pc' = "done"
    /\ scan_result' = [ rows |-> rows, ranges |-> ranges ]
    /\ UNCHANGED << span, current, ranges, rows, block_ts_cache, ts_requests, scan_error >>
    /\ ScanUnchangedArgs
    /\ ScanUnchangedFiles
    /\ ScanFrame

\* C30: an iteration whose request fails with a "too wide" message while
\* span > min_span leaves span = max(min_span, span div 2) and changes
\* nothing else: current, the completed ranges, the collected rows and the
\* timestamp cache are as before, nothing is returned or written, and the
\* loop goes on with a request that starts at the same current.
C30_ShrinkStepChangesOnlySpan ==
    [][(/\ scan_pc = "loop"
        /\ current <= end_block
        /\ scan_error' \in { ErrRangeTooLarge, ErrQueryTimeout }
        /\ span > min_span)
       => /\ span' = IF span \div 2 >= min_span THEN span \div 2 ELSE min_span
          /\ current' = current
          /\ ranges' = ranges
          /\ rows' = rows
          /\ block_ts_cache' = block_ts_cache
          /\ scan_pc' = "loop"
          /\ current' <= end_block
          /\ UNCHANGED << scan_result, trades_csv, validation_json, written >>
          /\ ScanUnchangedArgs]_vars

\* a scan started with span 3 and min_span 2 has completed a range, then a
\* request was refused as too wide: the span is 2 (the floor, not 3 div 2)
\* and the scan is still at the block after the completed range
C30_Witness ==
    /\ scan_pc = "loop"
    /\ scan_error \in { ErrRangeTooLarge, ErrQueryTimeout }
    /\ initial_span = 3
    /\ min_span = 2
    /\ span = 2
    /\ Len(ranges) = 1
    /\ current = ranges[1].end_block + 1
    /\ current <= end_block

\* deduped[row["log_uid"]] = row, for the rows from position i on: keys keeps
\* the order of first insertion, by_uid the row inserted last
RECURSIVE DedupeByLogUid(_, _, _, _)
DedupeByLogUid(scanned, i, keys, by_uid) ==
    IF i > Len(scanned) THEN [ k \in 1..Len(keys) |-> by_uid[keys[k]] ]
    ELSE DedupeByLogUid(scanned, i + 1,
                        IF scanned[i].log_uid \in DOMAIN by_uid THEN keys
                        ELSE Append(keys, scanned[i].log_uid),
                        (scanned[i].log_uid :> scanned[i]) @@ by_uid)

SortKeyLess_ByLogIndexOnly(a, b) == a.log_index < b.log_index

\* the order of the tuples (trade_timestamp, block_number, log_index)
SortKeyLess(a, b) ==
    \/ a.trade_timestamp < b.trade_timestamp
    \/ /\ a.trade_timestamp = b.trade_timestamp
       /\ \/ a.block_number < b.block_number
          \/ a.block_number = b.block_number /\ a.log_index < b.log_index

\* insertion of x into a list sorted by that key, after its equals
RECURSIVE InsertByKey(_, _)
InsertByKey(sorted, x) ==
    IF sorted = << >> THEN << x >>
    ELSE IF SortKeyLess(x, Head(sorted)) THEN << x >> \o sorted
    ELSE << Head(sorted) >> \o InsertByKey(Tail(sorted), x)

\* sorted(deduped.values(), key=...) of the first n values
RECURSIVE SortByKey(_, _)
SortByKey(values, n) ==
    IF n = 0 THEN << >> ELSE InsertByKey(SortByKey(values, n - 1), values[n])

\* the files main() leaves
WriteOutputs(final_rows) ==
    /\ trades_csv' = final_rows
    /\ validation_json' = [ ranges |-> scan_result.ranges, rows |-> Len(final_rows) ]
    /\ written' = { "strict_trades", "strict_validation" }

SortDeduped(deduped) == SortByKey(deduped, Len(deduped))

\* main() after the scan returned: dedupe, sort, write the CSV and the report
MainWriteOutputs ==
    /\ scan_pc = "done"
    /\ WriteOutputs(SortDeduped(DedupeByLogUid(scan_result.rows, 1, << >>, << >>)))
    /\ scan_pc' = "written"
    /\ UNCHANGED << span, current, ranges, rows, block_ts_cache, ts_requests, scan_error, scan_result >>
    /\ ScanUnchangedArgs
    /\ ScanFrame

ScanNext == ScanPage \/ ScanTooWide \/ ScanFatal \/ ScanReturn \/ MainWriteOutputs

\* ---- one backfill run: main() resolves both block bounds, then scans ----

\* the scan window of main(): a chain of MaxScanBlock blocks whose block b has
\* timestamp 4 + b, an empty cache, and the first search about to start
BackfillInit ==
    /\ latest_block = MaxScanBlock
    /\ chain_ts = [ b \in 1..MaxScanBlock |-> 4 + b ]
    /\ scan_start_ts \in 4..(4 + MaxScanBlock + 1)
    /\ scan_end_ts \in 4..(4 + MaxScanBlock + 1)
    /\ block_ts_cache = EmptyCache
    /\ ts_requests = EmptyCache
    /\ bis_lo = 1
    /\ bis_hi = latest_block
    /\ bis_iter = 0
    /\ bis_start_block = 0
    /\ bis_end_block = 0
    /\ bis_pc = "first"

\* main() raises "Invalid block range" when the bounds cross
MainInvalidRange ==
    /\ bis_pc = "done"
    /\ scan_pc = "idle"
    /\ bis_end_block < bis_start_block
    /\ bis_pc' = "invalid"
    /\ UNCHANGED << chainVars, scan_start_ts, scan_end_ts, bis_lo, bis_hi, bis_iter,
                    bis_start_block, bis_end_block >>
    /\ BisectFrame

\* main() calls _scan_market_trades with the two bounds and the cache both
\* searches have filled
MainStartScan ==
    /\ bis_pc = "done"
    /\ scan_pc = "idle"
    /\ bis_end_block >= bis_start_block
    /\ chain_logs' \in { MixedChain, BusyChain, ReplayedChain }
    /\ start_block' = bis_start_block
    /\ end_block' = bis_end_block
    /\ initial_span' \in 0..MaxSpan
    /\ min_span' \in 0..MaxSpan
    /\ span' = Max(1, initial_span')
    /\ current' = bis_start_block
    /\ scan_pc' = "loop"
    /\ UNCHANGED << ranges, rows, scan_error, scan_result, trades_csv, validation_json,
                    written >>
    /\ UNCHANGED << decVars, chainVars, bisVars, normVars, wsVars, trackerVars, pipeVars,
                    enrichVars, rpcVars, polyVars, recVars, replayVars, sinkVars >>

BackfillNext == BisectNext \/ MainInvalidRange \/ MainStartScan \/ ScanNext

\* C32: within one backfill run no block number's timestamp is requested
\* from the RPC more than once, by the two searches and the scan together,
\* and no step requests the timestamp of a block that is in the cache.
C32_TimestampRequestedOnce ==
    /\ [](\A b \in DOMAIN ts_requests : ts_requests[b] <= 1)
    /\ [][\A b \in DOMAIN block_ts_cache :
            RequestsOf(ts_requests', b) = RequestsOf(ts_requests, b)]_vars

\* a run whose first search probed blocks 2 and 1 and found start block 1
\* has scanned the chain whose blocks 1 and 4 hold fills without a timestamp
\* of their own, and has rows: blocks 1 and 4 were each requested once
C32_Witness ==
    /\ bis_pc = "done"
    /\ scan_pc = "done"
    /\ chain_logs = MixedChain
    /\ start_block = 1
    /\ end_block = 4
    /\ Len(rows) >= 2
    /\ RequestsOf(ts_requests, 1) = 1
    /\ RequestsOf(ts_requests, 4) = 1
    /\ RequestsOf(ts_requests, 2) = 1

\* one iteration of the while loop, or its exit
ScanLoopStep == ScanReturn \/ ScanFatal \/ ScanTooWide \/ ScanPage

\* C31: a scan called with 1 <= min_span <= initial_span keeps
\* min_span <= span <= initial_span in every state; and in every scan the
\* span grows only in an iteration that appended a range, only from a span
\* below initial_span and after a page of fewer than HeavyPageLogs logs, and
\* then to min(initial_span, 2 * span).
C31_SpanBoundsAndGrowth ==
    /\ []((1 <= min_span /\ min_span <= initial_span)
          => (min_span <= span /\ span <= initial_span))
    /\ [][span' > span
          => /\ Len(ranges') = Len(ranges) + 1
             /\ scan_pc' = "loop"
             /\ span < initial_span
             /\ ranges'[Len(ranges')].logs_count < HeavyPageLogs
             /\ span' = IF 2 * span <= initial_span THEN 2 * span ELSE initial_span]_vars

\* a scan with initial_span 3 and min_span 1 was shrunk to 1 and has grown
\* back to 2 after a light page
C31_Witness ==
    /\ initial_span = 3
    /\ min_span = 1
    /\ span = 2
    /\ scan_pc = "loop"
    /\ Len(ranges) >= 1
    /\ ranges[Len(ranges)].logs_count < HeavyPageLogs

\* C36: a scan with min_span >= 1 leaves its loop (it returns or raises),
\* whatever the provider answers: a "too wide" error at span > min_span makes
\* the span strictly smaller and keeps it at least min_span, and an iteration
\* that appends a range and goes on moves current strictly forward.
C36_ScanTerminates ==
    /\ (min_span >= 1 /\ scan_pc = "loop") ~> (scan_pc # "loop")
    /\ [][(min_span >= 1 /\ scan_pc = "loop" /\ scan_pc' = "loop")
          => \/ /\ scan_error' \in { ErrRangeTooLarge, ErrQueryTimeout }
                /\ span' < span
                /\ span' >= min_span
                /\ current' = current
             \/ /\ scan_error' = EmptyText
                /\ Len(ranges') = Len(ranges) + 1
                /\ current' > current]_vars

\* the cap on the ranges explored is never what ends a scan with min_span >= 1
C36_RangesCapNotReached ==
    (min_span >= 1 /\ scan_pc = "loop" /\ current <= end_block) => Len(ranges) < MaxRanges

\* a scan with min_span 1 returned after a "too wide" error on its first
\* request (span 3, then 1) and more than one range
C36_Witness ==
    /\ min_span = 1
    /\ initial_span = 3
    /\ scan_pc = "done"
    /\ Len(ranges) >= 2
    /\ ranges[1].end_block = ranges[1].start_block
    /\ start_block < end_block

\* C1: when a scan of [start_block, end_block] returns, the first recorded
\* range starts at start_block, the last ends at end_block, each range starts
\* right after the one before it ends, and no range is empty.
C1_RangesCoverExactly ==
    scan_pc = "done"
    => /\ Len(ranges) >= 1
       /\ ranges[1].start_block = start_block
       /\ ranges[Len(ranges)].end_block = end_block
       /\ \A i \in 1..Len(ranges) : ranges[i].start_block <= ranges[i].end_block
       /\ \A i \in 1..(Len(ranges) - 1) :
             ranges[i + 1].start_block = ranges[i].end_block + 1

\* a scan that shrank to one block on a "too wide" answer, grew back and returned
C1_Witness ==
    /\ scan_pc = "done"
    /\ initial_span = MaxSpan
    /\ Len(ranges) >= 3
    /\ ranges[1].end_block = ranges[1].start_block
    /\ ranges[2].end_block = ranges[2].start_block + 1

\* C8 as stated: no row of a scan has a token leg of zero.
C8_Original_NoZeroSizeRow ==
    \A i \in 1..Len(rows) : rows[i].size.raw > 0

\* C9 as stated: for every row, price * size_raw = notional_raw, the price
\* being the exact fraction num / den.
C9_Original_PriceTimesSizeIsNotional ==
    \A i \in 1..Len(rows) :
        rows[i].price.num * rows[i].size.raw = rows[i].notional.raw * rows[i].price.den

\* C18: once an eth_getLogs request of the scan failed with an error that is
\* not a "span too wide" one (a revert, an answer that is no list), the scan
\* has raised to main(), nothing was returned - neither rows nor ranges - and
\* neither the trades CSV nor the validation report is written.
C18_FatalErrorAbortsBackfill ==
    scan_error \in { ErrReverted, ErrNotAList }
    => /\ scan_pc = "raised"
       /\ scan_result = None
       /\ written = {}
       /\ trades_csv = << >>
       /\ validation_json = None

\* a revert on a later request, after ranges and rows were already collected
C18_Witness ==
    /\ scan_error = ErrReverted
    /\ scan_pc = "raised"
    /\ Len(ranges) >= 2
    /\ Len(rows) >= 2
    /\ written = {}

\* C19 as stated: a "range too large" class error never aborts the scan,
\* whatever the span is; the scan stays in its loop.
C19_Original_TooWideNeverAborts ==
    scan_error \in { ErrRangeTooLarge, ErrQueryTimeout } => scan_pc = "loop"

\* C20: the rows main() writes hold no two rows with the same log_uid, nor
\* with the same (tx_hash, log_index); they are in ascending order of
\* (trade_timestamp, block_number, log_index); and they are the logs the scan
\* returned, whatever order and multiplicity the provider answered in.
C20_WrittenRowsDedupedAndSorted ==
    scan_pc = "written"
    => /\ \A i, j \in 1..Len(trades_csv) :
             i # j => /\ trades_csv[i].log_uid # trades_csv[j].log_uid
                      /\ << trades_csv[i].tx_hash, trades_csv[i].log_index >>
                           # << trades_csv[j].tx_hash, trades_csv[j].log_index >>
       /\ \A i \in 1..(Len(trades_csv) - 1) :
             LET a == trades_csv[i]
                 b == trades_csv[i + 1]
             IN  \/ a.trade_timestamp < b.trade_timestamp
                 \/ a.trade_timestamp = b.trade_timestamp /\ a.block_number < b.block_number
                 \/ /\ a.trade_timestamp = b.trade_timestamp
                    /\ a.block_number = b.block_number
                    /\ a.log_index <= b.log_index
       /\ { trades_csv[i].log_uid : i \in 1..Len(trades_csv) }
            = { rows[i].log_uid : i \in 1..Len(rows) }
       /\ written = { "strict_trades", "strict_validation" }

\* a written backfill whose scan returned a log more than once, a later
\* second before an earlier one and a higher log index before a lower one
C20_Witness ==
    /\ scan_pc = "written"
    /\ Len(trades_csv) >= 3
    /\ Len(trades_csv) < Len(rows)
    /\ \E i \in 1..(Len(rows) - 1) : rows[i].trade_timestamp > rows[i + 1].trade_timestamp
    /\ \E i \in 1..(Len(rows) - 1) :
          /\ rows[i].trade_timestamp = rows[i + 1].trade_timestamp
          /\ rows[i].block_number = rows[i + 1].block_number
          /\ rows[i].log_index > rows[i + 1].log_index

-----------------------------------------------------------------------------
(***************************************************************************)
(* ws_connection.py / trade_streamer.py: the websocket connect loops       *)
(*                                                                         *)
(* ClobWebSocket._connect_loop and PolygonHeadSubscriber._connect_loop are *)
(* the same loop; on_open and on_close run on the loop's thread, inside    *)
(* run_forever.  Delays are whole seconds.                                 *)
(***************************************************************************)

RECONNECT_BASE_DELAY_SECONDS == 1
RECONNECT_MAX_DELAY_SECONDS == 60

\* connections one run of the loop starts
MaxWsAttempts == 8

WsKinds == { "ClobWebSocket", "PolygonHeadSubscriber" }

NextDelay_NoCap(delay) == delay * 2

\* min(self._reconnect_delay * 2, RECONNECT_MAX_DELAY_SECONDS)
NextDelay(delay) == Min(delay * 2, RECONNECT_MAX_DELAY_SECONDS)

WsIdle ==
    /\ ws_kind = "none"
    /\ ws_pc = "idle"
    /\ reconnect_delay = 0
    /\ stop_event = FALSE
    /\ connected = FALSE
    /\ ws_attempts = 0
    /\ ws_opened = FALSE
    /\ fails_since_open = 0
    /\ last_wait = 0
    /\ ws_closing = FALSE
    /\ stop_pc = "idle"
    /\ heartbeat_timer = "none"
    /\ hb_pc = "idle"

\* __init__ followed by start()
WsInit ==
    /\ ws_kind \in WsKinds
    /\ ws_pc = "top"
    /\ reconnect_delay = RECONNECT_BASE_DELAY_SECONDS
    /\ stop_event = FALSE
    /\ connected = FALSE
    /\ ws_attempts = 0
    /\ ws_opened = FALSE
    /\ fails_since_open = 0
    /\ last_wait = 0
    /\ ws_closing = FALSE
    /\ stop_pc = "idle"
    /\ heartbeat_timer = "none"
    /\ hb_pc = "idle"

\* _cancel_heartbeat: Timer.cancel() stops a timer that has not fired, and
\* the reference is dropped
_cancel_heartbeat(timer) == "none"

\* _start_heartbeat: cancel, then a new started Timer
_start_heartbeat(timer) == "armed"

\* what the steps of the connect loop and of stop()'s close and join leave alone
HbUnchanged == UNCHANGED << heartbeat_timer, hb_pc >>

\* the loop test: while not self._stop_event.is_set()
WsLoopTest ==
    /\ ws_pc = "top"
    /\ ws_pc' = IF stop_event THEN "exited" ELSE "create"
    /\ UNCHANGED << ws_kind, reconnect_delay, stop_event, connected, ws_attempts,
                    ws_opened, fails_since_open, last_wait, ws_closing, stop_pc >>
    /\ HbUnchanged
    /\ WsFrame

\* self._ws = WebSocketApp(...) and the entry into run_forever
WsConnect ==
    /\ ws_pc = "create"
    /\ ws_attempts < MaxWsAttempts
    /\ ws_pc' = "running"
    /\ ws_attempts' = ws_attempts + 1
    /\ ws_closing' = FALSE
    /\ UNCHANGED << ws_kind, reconnect_delay, stop_event, connected, ws_opened,
                    fails_since_open, last_wait, stop_pc >>
    /\ HbUnchanged
    /\ WsFrame

\* _on_open
WsOnOpen ==
    /\ ws_pc = "running"
    /\ ~ws_closing
    /\ ws_pc' = "open"
    /\ reconnect_delay' = RECONNECT_BASE_DELAY_SECONDS
    /\ connected' = TRUE
    /\ ws_opened' = TRUE
    /\ fails_since_open' = 0
    /\ UNCHANGED << ws_kind, stop_event, ws_attempts, last_wait, ws_closing, stop_pc >>
    /\ heartbeat_timer' = IF ws_kind = "ClobWebSocket"
                          THEN _start_heartbeat(heartbeat_timer) ELSE heartbeat_timer
    /\ UNCHANGED hb_pc
    /\ WsFrame

LoopAfterRun_Propagates(raised) == IF raised THEN "exited" ELSE "after_run"

\* where the loop thread is once run_forever is over: `except Exception`
\* catches what it raised
LoopAfterRun(raised) == "after_run"

\* run_forever returns, or raises, before the connection opened
WsConnectFails ==
    /\ ws_pc = "running"
    /\ \E raised \in BOOLEAN : ws_pc' = LoopAfterRun(raised)
    /\ connected' = FALSE
    /\ fails_since_open' = fails_since_open + 1
    /\ UNCHANGED << ws_kind, reconnect_delay, stop_event, ws_attempts, ws_opened,
                    last_wait, ws_closing, stop_pc >>
    /\ heartbeat_timer' = IF ws_kind = "ClobWebSocket"
                          THEN _cancel_heartbeat(heartbeat_timer) ELSE heartbeat_timer
    /\ UNCHANGED hb_pc
    /\ WsFrame

\* an open connection closes - the peer dropped it or close() was called:
\* _on_close, then run_forever returns or raises
WsDrop ==
    /\ ws_pc = "open"
    /\ \E raised \in BOOLEAN : ws_pc' = LoopAfterRun(raised)
    /\ connected' = FALSE
    /\ UNCHANGED << ws_kind, reconnect_delay, stop_event, ws_attempts, ws_opened,
                    fails_since_open, last_wait, ws_closing, stop_pc >>
    /\ heartbeat_timer' = IF ws_kind = "ClobWebSocket"
                          THEN _cancel_heartbeat(heartbeat_timer) ELSE heartbeat_timer
    /\ UNCHANGED hb_pc
    /\ WsFrame

\* after run_forever: break when stopped, else wait and double the delay
WsWait ==
    /\ ws_pc = "after_run"
    /\ IF stop_event
       THEN /\ ws_pc' = "exited"
            /\ UNCHANGED << reconnect_delay, last_wait >>
       ELSE /\ last_wait' = reconnect_delay
            /\ reconnect_delay' = NextDelay(reconnect_delay)
            /\ ws_pc' = "top"
    /\ UNCHANGED << ws_kind, stop_event, connected, ws_attempts, ws_opened,
                    fails_since_open, ws_closing, stop_pc >>
    /\ HbUnchanged
    /\ WsFrame

\* stop(), called from another thread: self._stop_event.set()
WsStop ==
    /\ stop_pc = "idle"
    /\ ws_pc \in { "top", "create", "running", "open", "after_run" }
    /\ stop_event' = TRUE
    /\ stop_pc' = "close"
    /\ UNCHANGED << ws_kind, ws_pc, reconnect_delay, connected, ws_attempts,
                    ws_opened, fails_since_open, last_wait, ws_closing >>
    /\ heartbeat_timer' = IF ws_kind = "ClobWebSocket"
                          THEN _cancel_heartbeat(heartbeat_timer) ELSE heartbeat_timer
    /\ UNCHANGED hb_pc
    /\ WsFrame

\* stop(): `if self._ws: self._ws.close()` - self._ws is the app of the last
\* connection the loop created, which is running only while the loop is in
\* its run_forever
WsStopClose ==
    /\ stop_pc = "close"
    /\ ws_closing' = (ws_closing \/ ws_pc \in { "running", "open" })
    /\ stop_pc' = "join"
    /\ UNCHANGED << ws_kind, ws_pc, reconnect_delay, stop_event, connected, ws_attempts,
                    ws_opened, fails_since_open, last_wait >>
    /\ HbUnchanged
    /\ WsFrame

\* stop(): self._thread.join(timeout=10) returns, the thread having exited or
\* the timeout having passed
WsStopJoin ==
    /\ stop_pc = "join"
    /\ stop_pc' = "returned"
    /\ UNCHANGED << ws_kind, ws_pc, reconnect_delay, stop_event, connected, ws_attempts,
                    ws_opened, fails_since_open, last_wait, ws_closing >>
    /\ HbUnchanged
    /\ WsFrame

WsUnchangedByTimer ==
    UNCHANGED << ws_kind, ws_pc, reconnect_delay, stop_event, connected, ws_attempts,
                 ws_opened, fails_since_open, last_wait, ws_closing, stop_pc >>

\* the armed timer expires: its thread enters _send_heartbeat and tests the
\* stop event
HbFire ==
    /\ heartbeat_timer = "armed"
    /\ hb_pc = "idle"
    /\ heartbeat_timer' = "fired"
    /\ hb_pc' = IF stop_event THEN "idle" ELSE "send"
    /\ WsUnchangedByTimer
    /\ WsFrame

\* _send_heartbeat: self._send("PING"), which hands the frame to self._ws
\* whatever its state and swallows the exception of a closed one
HbSend ==
    /\ hb_pc = "send"
    /\ hb_pc' = "restart"
    /\ UNCHANGED heartbeat_timer
    /\ WsUnchangedByTimer
    /\ WsFrame

\* _send_heartbeat: self._start_heartbeat()
HbRestart ==
    /\ hb_pc = "restart"
    /\ hb_pc' = "idle"
    /\ heartbeat_timer' = _start_heartbeat(heartbeat_timer)
    /\ WsUnchangedByTimer
    /\ WsFrame

WsNext ==
    \/ WsLoopTest \/ WsConnect \/ WsOnOpen \/ WsConnectFails \/ WsDrop \/ WsWait
    \/ WsStop \/ WsStopClose \/ WsStopJoin
    \/ HbFire \/ HbSend \/ HbRestart

\* C10 as stated: the wait taken after N consecutive failed connections is
\* min(base * 2^N, cap).
C10_Original_WaitAfterNFailures ==
    (ws_pc = "top" /\ last_wait # 0)
    => last_wait = Min(RECONNECT_BASE_DELAY_SECONDS * Pow(2, fails_since_open),
                       RECONNECT_MAX_DELAY_SECONDS)

\* C10, amended: the wait taken after N consecutive failed connections is
\* min(base * 2^N, cap) when a connection opened before them, and
\* min(base * 2^(N-1), cap) when none has opened since start; the delay never
\* exceeds the cap and is base while a connection is open.
C10_BackoffSchedule ==
    /\ (ws_pc = "top" /\ last_wait # 0)
       => last_wait = Min(RECONNECT_BASE_DELAY_SECONDS *
                            Pow(2, IF ws_opened THEN fails_since_open
                                   ELSE fails_since_open - 1),
                          RECONNECT_MAX_DELAY_SECONDS)
    /\ ws_pc # "idle" => /\ reconnect_delay >= RECONNECT_BASE_DELAY_SECONDS
                         /\ reconnect_delay <= RECONNECT_MAX_DELAY_SECONDS
                         /\ last_wait <= RECONNECT_MAX_DELAY_SECONDS
    /\ ws_pc = "open" => reconnect_delay = RECONNECT_BASE_DELAY_SECONDS

\* C22: the connect loop exits only when a stop was requested, and as long
\* as none is, every end of a connection - a drop, a failed attempt, an
\* exception out of run_forever - is eventually followed by a new connection
\* attempt (the runs explored start at most MaxWsAttempts connections).
C22_ReconnectsUntilStopped ==
    /\ [](ws_pc = "exited" => stop_event)
    /\ (ws_pc = "after_run" /\ ~stop_event /\ ws_attempts < MaxWsAttempts)
          ~> (stop_event \/ ws_pc = "running")

\* a third connection is being made after one that opened and dropped and
\* one that failed, no stop having been requested
C22_Witness ==
    /\ ws_pc = "running"
    /\ ~stop_event
    /\ ws_opened
    /\ fails_since_open = 1
    /\ ws_attempts = 3

\* C23 as stated: once stop() has set the event and closed the connection it
\* found, no connection is being made or open that was not told to close.
C23_Original_StopIsFinal ==
    (stop_pc \in { "join", "returned" } /\ ws_pc \in { "running", "open" }) => ws_closing

\* C28 as stated: while the connection is closed - on_close ran and no open
\* has followed - no heartbeat timer is armed.
C28_Original_NoHeartbeatAfterClose ==
    (ws_kind = "ClobWebSocket" /\ ~connected) => heartbeat_timer # "armed"

\* six failed connections after one that opened and dropped: the wait is capped
C10_Witness ==
    /\ ws_pc = "top"
    /\ ws_opened
    /\ fails_since_open = 6
    /\ last_wait = RECONNECT_MAX_DELAY_SECONDS

-----------------------------------------------------------------------------
(***************************************************************************)
(* trade_streamer.py: the real-time pipeline                               *)
(*                                                                         *)
(* The subscriber thread only enqueues heads (_on_new_head); the processor *)
(* thread dequeues them one at a time, and everything it touches is its    *)
(* own, so one dequeued head is one step.  Rows keep the fields the        *)
(* normalizer computes from the log; wall-clock fields and the formatted   *)
(* dedupe_key are not represented.                                         *)
(***************************************************************************)

\* capacity of the processed-block window (4096 in the source) and of the
\* seen-uid window (SEEN_LOG_UID_LIMIT, 100_000 in the source), scaled to the
\* runs the model explores
ProcessedBlocksWindow == 2
SeenLogUidWindow == 2

\* highest block of the chain the heads announce, and heads delivered in a run
MaxPipeBlock == 3
MaxHeads == 4

\* the wall clock in milliseconds when the service starts and the time that
\* passes between two heads: the first heads arrive before the second their
\* block carries, the later ones after it
StartClockMs == 3000
HeadIntervalMs == 2000

\* MarketTracker.resolve_token_market
resolve_token_market(token_id) ==
    IF token_id \notin DOMAIN token_index THEN None
    ELSE LET slug == token_index[token_id]
         IN  IF slug \notin DOMAIN active_markets THEN None
             ELSE LET market == active_markets[slug]
                  IN  [ kind    |-> "match",
                        market  |-> market,
                        outcome |-> IF token_id \in DOMAIN market.token_to_outcome
                                    THEN market.token_to_outcome[token_id]
                                    ELSE "" ]

TimestampMs_SecondOnly(block_timestamp, log_index) == block_timestamp * 1000

TimestampMs_WithinSecond(block_timestamp, log_index) ==
    block_timestamp * 1000 + (log_index % 1000)

\* timestamp_ms = block_timestamp * 1000 + decoded.log_index
TimestampMs(block_timestamp, log_index) == block_timestamp * 1000 + log_index

\* long division: the next n decimal digits of r / den (0 <= r < den) and the
\* remainder after them
RECURSIVE FractionDigits(_, _, _)
FractionDigits(r, den, n) ==
    IF n = 0 THEN [ digits |-> << >>, rest |-> r ]
    ELSE LET more == FractionDigits((r * 10) % den, den, n - 1)
         IN  [ digits |-> << (r * 10) \div den >> \o more.digits, rest |-> more.rest ]

\* a sequence of decimal digits plus one in its last place
RECURSIVE DigitsPlusOne(_)
DigitsPlusOne(ds) ==
    IF ds = << >> THEN [ digits |-> << >>, carry |-> 1 ]
    ELSE LET init == SubSeq(ds, 1, Len(ds) - 1)
             last == ds[Len(ds)]
         IN  IF last < 9 THEN [ digits |-> Append(init, last + 1), carry |-> 0 ]
             ELSE LET r == DigitsPlusOne(init)
                  IN  [ digits |-> Append(r.digits, 0), carry |-> r.carry ]

KeyPlaces == 10

\* f"{x:.10f}" of the non-negative number num / den: ten decimals, rounded
\* to the nearest
FixedText(num, den) ==
    LET frac    == FractionDigits(num % den, den, KeyPlaces)
        rounded == IF 2 * frac.rest >= den THEN DigitsPlusOne(frac.digits)
                   ELSE [ digits |-> frac.digits, carry |-> 0 ]
    IN  IntText(num \div den + rounded.carry) \o << "." >>
        \o [ i \in 1..KeyPlaces |-> DecimalDigits[rounded.digits[i] + 1] ]

SideText(side) == IF side = "SELL" THEN << "S", "E", "L", "L" >> ELSE << "B", "U", "Y" >>

\* _build_dedupe_key: the six parts joined with "|"
_build_dedupe_key(tx_hash, asset, side, timestamp, price, size) ==
    tx_hash \o << "|" >> \o asset \o << "|" >> \o SideText(side) \o << "|" >>
    \o IntText(timestamp) \o << "|" >> \o FixedText(price.num, price.den) \o << "|" >>
    \o FixedText(size.raw, 10 ^ size.exp)

\* TradeStreamService._normalize_trade: a row, or None
_normalize_trade(decoded, block_timestamp, receive_ms) ==
    LET maker_match == resolve_token_market(IntText(decoded.maker_asset_id))
        taker_match == resolve_token_market(IntText(decoded.taker_asset_id))
        is_sell     == maker_match # None
        match       == IF is_sell THEN maker_match ELSE taker_match
        token_asset_id == IF is_sell THEN decoded.maker_asset_id ELSE decoded.taker_asset_id
        size_raw    == IF is_sell THEN decoded.maker_amount_raw ELSE decoded.taker_amount_raw
        quote_asset_id == IF is_sell THEN decoded.taker_asset_id ELSE decoded.maker_asset_id
        quote_raw   == IF is_sell THEN decoded.taker_amount_raw ELSE decoded.maker_amount_raw
        priced      == quote_asset_id = USDC_ASSET_ID
    IN  IF maker_match = None /\ taker_match = None THEN None
        ELSE IF size_raw <= 0 THEN None
        ELSE [ kind             |-> "row",
               market_slug      |-> match.market.slug,
               trade_timestamp  |-> block_timestamp,
               price            |-> IF priced THEN Quotient(quote_raw, size_raw) ELSE EmptyText,
               size             |-> ScaledDecimal(size_raw),
               notional         |-> IF priced THEN ScaledDecimal(quote_raw) ELSE EmptyText,
               side             |-> IF is_sell THEN "SELL" ELSE "BUY",
               outcome          |-> match.outcome,
               asset            |-> IntText(token_asset_id),
               proxy_wallet     |-> decoded.maker,
               transaction_hash |-> decoded.tx_hash,
               dedupe_key       |->
                   _build_dedupe_key(decoded.tx_hash, IntText(token_asset_id),
                                     IF is_sell THEN "SELL" ELSE "BUY", block_timestamp,
                                     IF priced THEN Quotient(quote_raw, size_raw)
                                     ELSE ZeroPrice,
                                     ScaledDecimal(size_raw)),
               timestamp_ms     |-> TimestampMs(block_timestamp, decoded.log_index),
               server_received_ms |-> receive_ms ]

WindowTestAndAdd_KeepMembers(item, window, members, maxlen) ==
    IF item \in members THEN [ seen |-> TRUE, window |-> window, members |-> members ]
    ELSE [ seen    |-> FALSE,
           window  |-> Append(IF Len(window) >= maxlen THEN Tail(window) ELSE window, item),
           members |-> members \cup { item } ]

\* a deque(maxlen) membership test that records the item when it is new:
\* the answer, the deque and the set afterwards
WindowTestAndAdd(item, window, members, maxlen) ==
    IF item \in members THEN [ seen |-> TRUE, window |-> window, members |-> members ]
    ELSE LET full == Len(window) >= maxlen
             w    == IF full THEN Tail(window) ELSE window
             m    == IF full THEN members \ { Head(window) } ELSE members
         IN  [ seen |-> FALSE, window |-> Append(w, item), members |-> m \cup { item } ]

\* TradeStreamService._is_processed_block
_is_processed_block(block_number) ==
    WindowTestAndAdd(block_number, processed_blocks, processed_block_set,
                     ProcessedBlocksWindow)

_is_seen_log_uid_NeverSeen(log_uid, window, members) ==
    [ seen |-> FALSE, window |-> window, members |-> members ]

\* TradeStreamService._is_seen_log_uid, on the given window
_is_seen_log_uid(log_uid, window, members) ==
    WindowTestAndAdd(log_uid, window, members, SeenLogUidWindow)

\* the logs of the blocks the heads announce: a sell; two fills of one
\* transaction listed out of log-index order, one on the neg-risk exchange;
\* and a block with a fill quoted in another token, a fill whose token leg is
\* zero, a fill of untracked tokens and a log of another contract
PipeChain ==
    [ b \in 1..MaxPipeBlock |->
        CASE b = 1 -> << Fill(1, 0, 1, << 77, 0, 20000, 10000, 0 >>, "exchange", 0) >>
          [] b = 2 -> << Fill(2, 5, 2, << 0, 78, 10000, 20000, 0 >>, "other", 0),
                         BuildFillLog([ tx |-> 2, index |-> 1, block |-> 2,
                                        vals |-> << 78, 0, 20000, 20000, 0 >>,
                                        taker |-> "exchange",
                                        address |-> NEG_RISK_CTF_EXCHANGE, ts |-> 0 ]) >>
          [] b = 3 -> << Fill(3, 1000, 3, << 77, 99, 20000, 10000, 0 >>, "exchange", 0),
                         Fill(3, 1, 3, << 0, 78, 10000, 0, 0 >>, "exchange", 0),
                         Fill(3, 2, 3, << 99, 0, 20000, 10000, 0 >>, "exchange", 0),
                         BuildFillLog([ tx |-> 3, index |-> 3, block |-> 3,
                                        vals |-> << 77, 0, 20000, 10000, 0 >>,
                                        taker |-> "exchange",
                                        address |-> << "0", "x" >> \o OtherAddrDigits,
                                        ts |-> 0 ]) >>
          [] OTHER -> << >> ]

\* timestamp of a block of that chain
PipeBlockTs(b) == 4 + b

\* the newHeads notification of block b, with or without its timestamp
HeadOf(b, with_ts) ==
    [ number    |-> HexText(b),
      timestamp |-> IF with_ts THEN HexText(PipeBlockTs(b)) ELSE EmptyText ]

\* PolygonRpcClient.get_block_timestamp, given what get_block_by_number answered
get_block_timestamp(block) ==
    IF block = None THEN 0 ELSE parse_hex_int(block.timestamp)

\* PolygonRpcClient.get_order_filled_logs, given the call answered
get_order_filled_logs(block_number) == PipeChain[block_number]

\* insertion of x into a list sorted by logIndex, after its equals
RECURSIVE InsertByLogIndex(_, _)
InsertByLogIndex(sorted, x) ==
    IF sorted = << >> THEN << x >>
    ELSE IF parse_hex_int(x.logIndex) < parse_hex_int(Head(sorted).logIndex)
         THEN << x >> \o sorted
         ELSE << Head(sorted) >> \o InsertByLogIndex(Tail(sorted), x)

\* sorted(logs, key=lambda x: parse_hex_int(x.get("logIndex")))
RECURSIVE SortByLogIndex(_, _)
SortByLogIndex(logs, n) ==
    IF n = 0 THEN << >> ELSE InsertByLogIndex(SortByLogIndex(logs, n - 1), logs[n])

\* per block, the decoder applied to the sorted logs (computed once)
DecodedSortedLogs ==
    [ b \in 1..MaxPipeBlock |->
        LET logs == SortByLogIndex(get_order_filled_logs(b), Len(get_order_filled_logs(b)))
        IN  [ i \in 1..Len(logs) |-> decode_order_filled_log(logs[i]) ] ]

\* the processor's sinks and seen window, as one value threaded through a block
PipeState ==
    [ seen_log_uids    |-> seen_log_uids,
      seen_log_uid_set |-> seen_log_uid_set,
      csv_rows         |-> csv_rows,
      broadcasts       |-> broadcasts,
      emitted          |-> emitted,
      events_processed |-> events_processed,
      uids_skipped     |-> uids_skipped ]

\* the for loop of _process_block from log i on
RECURSIVE ProcessLogs(_, _, _, _, _)
ProcessLogs(decoded_logs, i, block_timestamp, receive_ms, st) ==
    IF i > Len(decoded_logs) THEN st
    ELSE LET decoded == decoded_logs[i]
             row     == IF decoded = None \/ decoded.address \notin EXCHANGE_ADDRESSES
                        THEN None
                        ELSE _normalize_trade(decoded, block_timestamp, receive_ms)
         IN  IF row = None
             THEN ProcessLogs(decoded_logs, i + 1, block_timestamp, receive_ms, st)
             ELSE LET log_uid == LogUid(decoded.tx_hash, decoded.log_index)
                      t == _is_seen_log_uid(log_uid, st.seen_log_uids, st.seen_log_uid_set)
                      seen_st == [ st EXCEPT !.seen_log_uids = t.window,
                                             !.seen_log_uid_set = t.members ]
                  IN  IF t.seen
                      THEN ProcessLogs(decoded_logs, i + 1, block_timestamp, receive_ms,
                                       [ seen_st EXCEPT !.uids_skipped = @ + 1 ])
                      ELSE ProcessLogs(decoded_logs, i + 1, block_timestamp, receive_ms,
                             [ seen_st EXCEPT
                                 !.csv_rows = Append(@, row),
                                 !.broadcasts = Append(@, row),
                                 !.emitted = Append(@, << decoded.tx_hash, decoded.log_index >>),
                                 !.events_processed = @ + 1 ])

\* _process_block: ts_rpc and logs_rpc are what the two RPC calls do if made
_process_block(block_number, head_timestamp, receive_ms, ts_rpc, logs_rpc) ==
    LET fetched == CASE ts_rpc = "block" ->
                          get_block_timestamp([ timestamp |-> HexText(PipeBlockTs(block_number)) ])
                     [] ts_rpc = "none"  -> get_block_timestamp(None)
                     [] ts_rpc = "raise" -> 0
        block_timestamp == IF head_timestamp = 0 THEN fetched ELSE head_timestamp
    IN  IF head_timestamp = 0 /\ ts_rpc = "raise" THEN PipeState
        ELSE IF block_timestamp = 0 THEN PipeState
        ELSE IF logs_rpc = "raise" THEN PipeState
        ELSE ProcessLogs(DecodedSortedLogs[block_number], 1, block_timestamp, receive_ms,
                         PipeState)

\* whether that call of _process_block ends in an exception: one of the RPC
\* calls it makes raised
ProcessBlockRaises(head_timestamp, ts_rpc, logs_rpc) ==
    IF head_timestamp = 0 /\ ts_rpc = "raise" THEN TRUE
    ELSE IF head_timestamp = 0 /\ ts_rpc = "none" THEN FALSE
    ELSE logs_rpc = "raise"

\* how an iteration of _process_heads_loop on a dequeued head ended
IterationOutcome(seen, raised) ==
    IF seen THEN "skipped" ELSE IF raised THEN "raised" ELSE "done"

LoopSurvives_OnlyWithoutError(raised) == ~raised

\* try: self._process_block(...) / except Exception: logger.exception(...):
\* whether the thread is still in its loop after the iteration
LoopSurvives(raised) == TRUE

QueuePut_Front(queue, item) == << item >> \o queue

\* Queue.put and Queue.get of the head queue
QueuePut(queue, item) == Append(queue, item)
QueueGet(queue) == [ item |-> Head(queue), rest |-> Tail(queue) ]

TrackedMarket ==
    [ slug             |-> "btc-updown-5m",
      token_to_outcome |-> (IntText(77) :> "Up") @@ (IntText(78) :> "Down") ]

TrackerIdle ==
    /\ token_index = << >>
    /\ active_markets = << >>
    /\ tr_timeframes = << >>
    /\ tr_now = 0
    /\ tr_polls = 0
    /\ tr_listing = {}
    /\ tr_discovery_now = 0
    /\ tr_added = {}
    /\ tr_expired = {}
    /\ tr_ever_expired = {}

PipeIdle ==
    /\ head_queue = << >>
    /\ processed_blocks = << >>
    /\ processed_block_set = {}
    /\ seen_log_uids = << >>
    /\ seen_log_uid_set = {}
    /\ csv_rows = << >>
    /\ broadcasts = << >>
    /\ emitted = << >>
    /\ events_processed = 0
    /\ uids_skipped = 0
    /\ heads_delivered = 0
    /\ heads_enqueued = 0
    /\ clock_ms = 0
    /\ pipe_stop_event = FALSE
    /\ processor_alive = TRUE
    /\ pipe_log = << >>

\* the service once its first poll has found the market
PipeInit ==
    /\ token_index = (IntText(77) :> TrackedMarket.slug) @@ (IntText(78) :> TrackedMarket.slug)
    /\ active_markets = (TrackedMarket.slug :> TrackedMarket)
    /\ tr_timeframes = << << "5", "m" >> >>
    /\ tr_now = 0
    /\ tr_polls = 1
    /\ tr_listing = {}
    /\ tr_discovery_now = 0
    /\ tr_added = {}
    /\ tr_expired = {}
    /\ tr_ever_expired = {}
    /\ head_queue = << >>
    /\ processed_blocks = << >>
    /\ processed_block_set = {}
    /\ seen_log_uids = << >>
    /\ seen_log_uid_set = {}
    /\ csv_rows = << >>
    /\ broadcasts = << >>
    /\ emitted = << >>
    /\ events_processed = 0
    /\ uids_skipped = 0
    /\ heads_delivered = 0
    /\ heads_enqueued = 0
    /\ clock_ms = StartClockMs
    /\ pipe_stop_event = FALSE
    /\ processor_alive = TRUE
    /\ pipe_log = << >>

\* _on_new_head, on the subscriber thread
OnNewHead ==
    /\ ~pipe_stop_event
    /\ heads_delivered < MaxHeads
    /\ heads_delivered' = heads_delivered + 1
    /\ clock_ms' = clock_ms + HeadIntervalMs
    /\ \E b \in 0..MaxPipeBlock, with_ts \in BOOLEAN :
          LET head == HeadOf(b, with_ts)
              block_number == parse_hex_int(head.number)
          IN  IF block_number <= 0
              THEN UNCHANGED << head_queue, heads_enqueued >>
              ELSE /\ heads_enqueued' = heads_enqueued + 1
                   /\ head_queue' =
                        QueuePut(head_queue,
                                 [ block_number    |-> block_number,
                                   block_timestamp |-> parse_hex_int(head.timestamp),
                                   receive_ms      |-> clock_ms,
                                   ticket          |-> heads_enqueued + 1 ])
    /\ UNCHANGED << processed_blocks, processed_block_set, seen_log_uids,
                    seen_log_uid_set, csv_rows, broadcasts, emitted, events_processed,
                    uids_skipped, pipe_stop_event, processor_alive, pipe_log >>
    /\ UNCHANGED trackerVars
    /\ PipeFrame

\* one iteration of _process_heads_loop that dequeued a head
ProcessHead ==
    /\ processor_alive
    /\ ~pipe_stop_event
    /\ head_queue # << >>
    /\ head_queue' = QueueGet(head_queue).rest
    /\ LET head == QueueGet(head_queue).item
           p    == _is_processed_block(head.block_number)
       IN  /\ processed_blocks' = p.window
           /\ processed_block_set' = p.members
           /\ \E ts_rpc \in { "block", "none", "raise" }, logs_rpc \in { "list", "raise" } :
                 LET st == IF p.seen THEN PipeState
                           ELSE _process_block(head.block_number, head.block_timestamp,
                                               head.receive_ms, ts_rpc, logs_rpc)
                     raised == ProcessBlockRaises(head.block_timestamp, ts_rpc, logs_rpc)
                 IN  /\ processor_alive' = LoopSurvives(~p.seen /\ raised)
                     /\ pipe_log' = Append(pipe_log,
                                           [ block_number |-> head.block_number,
                                             ticket       |-> head.ticket,
                                             outcome      |-> IterationOutcome(p.seen, raised),
                                             rows_before  |-> Len(csv_rows) ])
                     /\ seen_log_uids' = st.seen_log_uids
                     /\ seen_log_uid_set' = st.seen_log_uid_set
                     /\ csv_rows' = st.csv_rows
                     /\ broadcasts' = st.broadcasts
                     /\ emitted' = st.emitted
                     /\ events_processed' = st.events_processed
                     /\ uids_skipped' = st.uids_skipped
    /\ UNCHANGED << heads_delivered, heads_enqueued, clock_ms, pipe_stop_event >>
    /\ UNCHANGED trackerVars
    /\ PipeFrame

\* _shutdown sets the stop event: the subscriber is stopped and the loop test
\* of _process_heads_loop fails from then on (the joins and the sinks' close
\* are not represented)
PipeShutdown ==
    /\ ~pipe_stop_event
    /\ pipe_stop_event' = TRUE
    /\ UNCHANGED << head_queue, processed_blocks, processed_block_set, seen_log_uids,
                    seen_log_uid_set, csv_rows, broadcasts, emitted, events_processed,
                    uids_skipped, heads_delivered, heads_enqueued, clock_ms,
                    processor_alive, pipe_log >>
    /\ UNCHANGED trackerVars
    /\ PipeFrame

PipeNext == OnNewHead \/ ProcessHead \/ PipeShutdown

\* the decoded logs of the chain the heads announce
PipeDecodedLogs ==
    UNION { { DecodedSortedLogs[b][i] : i \in 1..Len(DecodedSortedLogs[b]) } :
            b \in 1..MaxPipeBlock } \ { None }

\* the decoded logs a row of the sink was made from
LogsOfEmitted(uid) ==
    { d \in PipeDecodedLogs : d.tx_hash = uid[1] /\ d.log_index = uid[2] }

\* one leg is a token of a tracked market and the other the quote asset
IsQuotedFill(d) ==
    \/ /\ IntText(d.maker_asset_id) \in DOMAIN token_index
       /\ d.taker_asset_id = USDC_ASSET_ID
    \/ /\ IntText(d.taker_asset_id) \in DOMAIN token_index
       /\ d.maker_asset_id = USDC_ASSET_ID

\* C33 as stated: every row of the sink was made from a log with one leg a
\* tracked outcome token and the other leg the quote asset (id 0); a log
\* with any other combination of asset ids produces no row.
C33_Original_OnlyQuotedFillsEmitted ==
    \A i \in 1..Len(emitted) : \A d \in LogsOfEmitted(emitted[i]) : IsQuotedFill(d)

\* what the normalizer does reject: every row of the sink was made from a
\* log with a leg that is a tracked token and a positive amount on that
\* leg; the row has a price and a notional exactly when the other leg is
\* the quote asset, and is empty in both otherwise.
C33_EmittedHasTrackedLeg ==
    \A i \in 1..Len(emitted) : \A d \in LogsOfEmitted(emitted[i]) :
        /\ \/ IntText(d.maker_asset_id) \in DOMAIN token_index
           \/ IntText(d.taker_asset_id) \in DOMAIN token_index
        /\ IsQuotedFill(d) <=> csv_rows[i].price # EmptyText
        /\ IsQuotedFill(d) <=> csv_rows[i].notional # EmptyText
        /\ csv_rows[i].asset \in { IntText(d.maker_asset_id), IntText(d.taker_asset_id) }
        /\ csv_rows[i].asset \in DOMAIN token_index

\* C2 as stated: no two rows of the sink have the same (tx_hash, log_index).
C2_Original_NoDuplicateEmitted ==
    \A i, j \in 1..Len(emitted) : i < j => emitted[i] # emitted[j]

\* C2, amended: every row of the sink is also broadcast, and two rows of the
\* sink that are at most SEEN_LOG_UID_LIMIT rows apart never have the same
\* (tx_hash, log_index); the seen window holds the uids of the latest rows.
C2_NoDuplicateWithinSeenWindow ==
    /\ broadcasts = csv_rows
    /\ Len(emitted) = Len(csv_rows)
    /\ events_processed = Len(csv_rows)
    /\ \A i \in 1..Len(emitted) : csv_rows[i].transaction_hash = emitted[i][1]
    /\ \A i, j \in 1..Len(emitted) :
          (i < j /\ j - i <= SeenLogUidWindow) => emitted[i] # emitted[j]
    /\ LET n == Len(emitted)
           k == Min(n, SeenLogUidWindow)
       IN  seen_log_uids = [ i \in 1..k |-> LogUid(emitted[n - k + i][1], emitted[n - k + i][2]) ]

Accepted(from, to) ==
    Cardinality({ m \in from..to : pipe_log[m].outcome # "skipped" })

\* C21 as stated: a block whose processing raised is never processed again;
\* every later head of its number is skipped.
C21_Original_FailedBlockNeverRetried ==
    \A i, j \in 1..Len(pipe_log) :
        ( /\ i < j
          /\ pipe_log[i].outcome = "raised"
          /\ pipe_log[j].block_number = pipe_log[i].block_number )
        => pipe_log[j].outcome = "skipped"

\* C21, amended: an exception in _process_block never ends the loop - the
\* processor thread stays in it until a stop is requested - and a dequeued
\* head is skipped exactly when a head of the same number went to
\* _process_block (whether that call returned or raised) and fewer than
\* 4096 (here ProcessedBlocksWindow) heads went there since; every other
\* dequeued head is processed, whatever failed before it.
C21_FailedBlockSkippedWhileInWindow ==
    /\ processor_alive
    /\ \A j \in 1..Len(pipe_log) :
          pipe_log[j].outcome = "skipped"
          <=> \E k \in 1..(j - 1) :
                 /\ pipe_log[k].block_number = pipe_log[j].block_number
                 /\ pipe_log[k].outcome # "skipped"
                 /\ Accepted(k + 1, j - 1) < ProcessedBlocksWindow

\* a block fails, its head comes again and is skipped, and a head dequeued
\* after that gives a trade
C21_Witness ==
    \E i, j, k \in 1..Len(pipe_log) :
        /\ i < j /\ j < k
        /\ pipe_log[i].outcome = "raised"
        /\ pipe_log[j].outcome = "skipped"
        /\ pipe_log[j].block_number = pipe_log[i].block_number
        /\ pipe_log[k].outcome = "done"
        /\ Len(csv_rows) > pipe_log[k].rows_before
        /\ ~pipe_stop_event

\* the last n elements of a sequence (all of it when it is shorter)
LastOf(seq, n) ==
    [ i \in 1..(IF Len(seq) < n THEN Len(seq) ELSE n) |->
        seq[Len(seq) - (IF Len(seq) < n THEN Len(seq) ELSE n) + i] ]

\* the block numbers inserted into the processed-block window, in order:
\* those of the heads that were not skipped
InsertedBlocks ==
    LET accepted == SelectSeq(pipe_log, LAMBDA e : e.outcome # "skipped")
    IN  [ i \in 1..Len(accepted) |-> accepted[i].block_number ]

\* the uids inserted into the seen window, in order: those of the emitted rows
InsertedUids == [ i \in 1..Len(emitted) |-> LogUid(emitted[i][1], emitted[i][2]) ]

\* C24: each dedup window holds at most its capacity (4096 blocks, 100000
\* uids; here ProcessedBlocksWindow and SeenLogUidWindow), its membership set
\* is exactly the set of the elements of its queue, and its queue is the
\* latest insertions in insertion order - so an insertion into a full window
\* has evicted the oldest inserted entry and nothing else.
C24_WindowsAreBoundedFifos ==
    /\ Len(processed_blocks) <= ProcessedBlocksWindow
    /\ Len(seen_log_uids) <= SeenLogUidWindow
    /\ processed_block_set = { processed_blocks[i] : i \in 1..Len(processed_blocks) }
    /\ seen_log_uid_set = { seen_log_uids[i] : i \in 1..Len(seen_log_uids) }
    /\ Cardinality(processed_block_set) = Len(processed_blocks)
    /\ Cardinality(seen_log_uid_set) = Len(seen_log_uids)
    /\ processed_blocks = LastOf(InsertedBlocks, ProcessedBlocksWindow)
    /\ seen_log_uids = LastOf(InsertedUids, SeenLogUidWindow)

\* both windows are full and each has evicted an entry
C24_Witness ==
    /\ Len(processed_blocks) = ProcessedBlocksWindow
    /\ Len(InsertedBlocks) > ProcessedBlocksWindow
    /\ InsertedBlocks[1] \notin processed_block_set
    /\ Len(seen_log_uids) = SeenLogUidWindow
    /\ Len(InsertedUids) > SeenLogUidWindow
    /\ InsertedUids[1] \notin seen_log_uid_set

\* the block whose processing appended row i of the sink: that of the last
\* iteration that began with fewer than i rows in the sink
BlockOfRow(i) ==
    LET k == CHOOSE k \in 1..Len(pipe_log) :
                 /\ pipe_log[k].rows_before < i
                 /\ \A m \in (k + 1)..Len(pipe_log) : pipe_log[m].rows_before >= i
    IN  pipe_log[k].block_number

\* C25: every row of the sink has timestamp_ms = block_timestamp * 1000 +
\* log_index, the block's own second and the log's index, whatever the wall
\* clock read when the head arrived; and of two rows of one block with
\* different log indexes the one with the lower index has the lower
\* timestamp_ms.
C25_TimestampMsFromBlockAndLogIndex ==
    /\ \A i \in 1..Len(csv_rows) :
          /\ csv_rows[i].trade_timestamp = PipeBlockTs(BlockOfRow(i))
          /\ csv_rows[i].timestamp_ms = PipeBlockTs(BlockOfRow(i)) * 1000 + emitted[i][2]
    /\ \A i, j \in 1..Len(csv_rows) :
          (BlockOfRow(i) = BlockOfRow(j) /\ emitted[i][2] < emitted[j][2])
          => csv_rows[i].timestamp_ms < csv_rows[j].timestamp_ms

\* two trades of one block are in the sink, and so are a trade received
\* before its block's second and one received more than a second after it
C25_Witness ==
    /\ \E i, j \in 1..Len(csv_rows) :
          BlockOfRow(i) = BlockOfRow(j) /\ emitted[i][2] < emitted[j][2]
    /\ \E i \in 1..Len(csv_rows) :
          csv_rows[i].server_received_ms < csv_rows[i].trade_timestamp * 1000
    /\ \E i \in 1..Len(csv_rows) :
          csv_rows[i].server_received_ms > csv_rows[i].timestamp_ms + 1000

\* the iteration of the processor loop that appended row i of the sink
IterationOfRow(i) ==
    CHOOSE k \in 1..Len(pipe_log) :
        /\ pipe_log[k].rows_before < i
        /\ \A m \in (k + 1)..Len(pipe_log) : pipe_log[m].rows_before >= i

\* C26: numbering the heads in the order _on_new_head enqueued them, the
\* heads dequeued so far followed by the heads still queued are 1, 2, 3, ...
\* without gap or inversion - heads are processed in exactly the order they
\* were enqueued, each in one iteration of the one processor thread - and
\* the rows one iteration appended are in ascending order of log index.
C26_HeadsInArrivalOrderLogsAscending ==
    /\ [ k \in 1..Len(pipe_log) |-> pipe_log[k].ticket ]
          \o [ k \in 1..Len(head_queue) |-> head_queue[k].ticket ]
        = [ k \in 1..heads_enqueued |-> k ]
    /\ \A k \in 1..(Len(pipe_log) - 1) :
          pipe_log[k].rows_before <= pipe_log[k + 1].rows_before
    /\ \A i, j \in 1..Len(csv_rows) :
          (i < j /\ IterationOfRow(i) = IterationOfRow(j))
          => emitted[i][2] < emitted[j][2]

\* heads were dequeued while others waited behind them, and a block whose
\* logs the node listed out of order has both its trades in the sink
C26_Witness ==
    /\ Len(pipe_log) >= 2
    /\ Len(head_queue) >= 2
    /\ \E i, j \in 1..Len(csv_rows) :
          /\ i < j
          /\ IterationOfRow(i) = IterationOfRow(j)
          /\ pipe_log[IterationOfRow(i)].block_number = 2
          /\ emitted[i][2] = 1
          /\ emitted[j][2] = 5

\* a block announced again while its uids are still in the seen window: its
\* trade is not appended a second time
C2_Witness ==
    /\ head_queue = << >>
    /\ uids_skipped >= 1
    /\ Len(emitted) >= 1
    /\ LogUid(emitted[Len(emitted)][1], emitted[Len(emitted)][2]) \in seen_log_uid_set

-----------------------------------------------------------------------------
(***************************************************************************)
(* timeframes.py: timeframe aliases and the market matcher                 *)
(***************************************************************************)

TF_5M == << "5", "m" >>
TF_15M == << "1", "5", "m" >>
TF_1H == << "1", "h" >>
TF_4H == << "4", "h" >>

SUPPORTED_TIMEFRAMES == << TF_5M, TF_15M, TF_1H, TF_4H >>

_TIMEFRAME_ALIASES ==
    (TF_5M :> TF_5M) @@ (TF_15M :> TF_15M) @@ (TF_1H :> TF_1H) @@
    (<< "6", "0", "m" >> :> TF_1H) @@ (<< "h", "o", "u", "r", "l", "y" >> :> TF_1H) @@
    (TF_4H :> TF_4H) @@ (<< "4", "h", "o", "u", "r" >> :> TF_4H) @@ (<< "2", "4", "0", "m" >> :> TF_4H)

\* str.strip(), for the blanks the model's texts can hold
RECURSIVE Strip(_)
Strip(s) ==
    IF s = << >> THEN s
    ELSE IF Head(s) = " " THEN Strip(Tail(s))
    ELSE IF s[Len(s)] = " " THEN Strip(SubSeq(s, 1, Len(s) - 1))
    ELSE s

\* normalize_timeframe: the canonical timeframe, or None
normalize_timeframe(value) ==
    LET token == Lower(Strip(value))
    IN  IF token \in DOMAIN _TIMEFRAME_ALIASES THEN _TIMEFRAME_ALIASES[token] ELSE None

AsciiLowerLetters ==
    { "a", "b", "c", "d", "e", "f", "g", "h", "i", "j", "k", "l", "m",
      "n", "o", "p", "q", "r", "s", "t", "u", "v", "w", "x", "y", "z" }

AsciiDigits == { "0", "1", "2", "3", "4", "5", "6", "7", "8", "9" }

AllIn(s, chars) == \A i \in 1..Len(s) : s[i] \in chars

HasPrefix(s, prefix) == Len(s) >= Len(prefix) /\ SubSeq(s, 1, Len(prefix)) = prefix

\* position of the first "-" of s, 0 when it has none
FirstDash(s) ==
    IF \E i \in 1..Len(s) : s[i] = "-"
    THEN CHOOSE i \in 1..Len(s) : s[i] = "-" /\ \A j \in 1..(i - 1) : s[j] # "-"
    ELSE 0

MARKET_SLUG_PREFIX == << "b", "t", "c", "-", "u", "p", "d", "o", "w", "n", "-" >>
SERIES_SLUG_PREFIX == << "b", "t", "c", "-", "u", "p", "-", "o", "r", "-", "d", "o", "w", "n", "-" >>

\* _MARKET_SLUG_PATTERN.match: ^btc-updown-([a-z0-9]+)-(\d+)$, its two groups
MatchMarketSlug(slug) ==
    IF ~HasPrefix(slug, MARKET_SLUG_PREFIX) THEN None
    ELSE LET rest == SubSeq(slug, Len(MARKET_SLUG_PREFIX) + 1, Len(slug))
             d    == FirstDash(rest)
             g1   == SubSeq(rest, 1, d - 1)
             g2   == SubSeq(rest, d + 1, Len(rest))
         IN  IF d = 0 \/ g1 = << >> \/ g2 = << >> THEN None
             ELSE IF ~AllIn(g1, AsciiLowerLetters \cup AsciiDigits) THEN None
             ELSE IF ~AllIn(g2, AsciiDigits) THEN None
             ELSE [ kind |-> "match", group1 |-> g1, group2 |-> g2 ]

\* _SERIES_SLUG_PATTERN.match: ^btc-up-or-down-([a-z0-9]+)$, its group
MatchSeriesSlug(slug) ==
    IF ~HasPrefix(slug, SERIES_SLUG_PREFIX) THEN None
    ELSE LET g1 == SubSeq(slug, Len(SERIES_SLUG_PREFIX) + 1, Len(slug))
         IN  IF g1 = << >> \/ ~AllIn(g1, AsciiLowerLetters \cup AsciiDigits) THEN None
             ELSE [ kind |-> "match", group1 |-> g1 ]

InTuple(x, tuple) == \E i \in 1..Len(tuple) : tuple[i] = x

SeriesHasSameTf_Any(events, slug_tf) == \E i \in 1..Len(events) : events[i].isDict

\* the loop over events: some dict event's series slug has the slug's timeframe
SeriesHasSameTf(events, slug_tf) ==
    \E i \in 1..Len(events) :
        /\ events[i].isDict
        /\ LET series_match == MatchSeriesSlug(Lower(events[i].seriesSlug))
           IN  /\ series_match # None
               /\ normalize_timeframe(series_match.group1) = slug_tf

\* match_btc_updown_market: (slug_tf, window_start_ts), or None
match_btc_updown_market(market, enabled_timeframes) ==
    LET slug_match == MatchMarketSlug(Lower(market.slug))
    IN  IF slug_match = None THEN None
        ELSE LET slug_tf == normalize_timeframe(slug_match.group1)
             IN  IF slug_tf = None \/ ~InTuple(slug_tf, enabled_timeframes) THEN None
                 ELSE IF ~SeriesHasSameTf(market.events, slug_tf) THEN None
                 ELSE [ kind            |-> "match",
                        timeframe       |-> slug_tf,
                        window_start_ts |-> PyInt10(slug_match.group2).val ]

-----------------------------------------------------------------------------
(***************************************************************************)
(* market_tracker.py: MarketTracker                                        *)
(*                                                                         *)
(* A raw market is what the listing returns: slug, events (each a dict or  *)
(* not, with seriesSlug and id), conditionId, clobTokenIds and outcomes    *)
(* (JSON texts, given by whether they parse and to what), endDate (absent, *)
(* malformed, or the ISO text of a whole second), and its id.              *)
(***************************************************************************)

\* the markets a listing can hold, each with the timeframe its slug stands
\* for and the timeframes of its series (None: no timeframe)
Candidates ==
    << 
       \* a 5m market of the 5m series, ending at 1000
       [ tf |-> TF_5M, series_tfs |-> { TF_5M },
         raw |-> [ id           |-> 1,
                  slug         |-> << "b", "t", "c", "-", "u", "p", "d", "o", "w", "n", "-", "5", "m", "-", "1", "7", "7", "1", "2", "1", "2", "0", "0", "0" >>,
                  events       |-> << [ isDict |-> TRUE, seriesSlug |-> << "b", "t", "c", "-", "u", "p", "-", "o", "r", "-", "d", "o", "w", "n", "-", "5", "m" >>, id |-> << "e", "1" >> ] >>,
                  conditionId  |-> << "0", "x", "c", "1" >>,
                  clobTokenIds |-> [ valid |-> TRUE, items |-> << << "7", "7" >>, << "7", "8" >> >> ],
                  outcomes     |-> [ valid |-> TRUE, items |-> << "Up", "Down" >> ],
                  endDate      |-> [ kind |-> "iso", ts |-> 1000 ] ] ],
       \* a 5m slug in the 15m series
       [ tf |-> TF_5M, series_tfs |-> { TF_15M },
         raw |-> [ id           |-> 2,
                  slug         |-> << "b", "t", "c", "-", "u", "p", "d", "o", "w", "n", "-", "5", "m", "-", "1", "7", "7", "1", "2", "1", "1", "7", "0", "0" >>,
                  events       |-> << [ isDict |-> TRUE, seriesSlug |-> << "b", "t", "c", "-", "u", "p", "-", "o", "r", "-", "d", "o", "w", "n", "-", "1", "5", "m" >>, id |-> << "e", "2" >> ] >>,
                  conditionId  |-> << "0", "x", "c", "2" >>,
                  clobTokenIds |-> [ valid |-> TRUE, items |-> << << "8", "0" >>, << "8", "1" >> >> ],
                  outcomes     |-> [ valid |-> TRUE, items |-> << "Up", "Down" >> ],
                  endDate      |-> [ kind |-> "iso", ts |-> 1000 ] ] ],
       \* an hourly market under aliases and capitals, sharing token 78, ending at 1001
       [ tf |-> TF_1H, series_tfs |-> { TF_4H, TF_1H },
         raw |-> [ id           |-> 3,
                  slug         |-> << "B", "T", "C", "-", "U", "p", "D", "o", "w", "n", "-", "6", "0", "m", "-", "1", "7", "7", "1", "2", "1", "1", "7", "0", "0" >>,
                  events       |-> << [ isDict |-> FALSE, seriesSlug |-> << >>, id |-> << "e", "0" >> ], [ isDict |-> TRUE, seriesSlug |-> << "b", "t", "c", "-", "u", "p", "-", "o", "r", "-", "d", "o", "w", "n", "-", "4", "h" >>, id |-> << "e", "3" >> ], [ isDict |-> TRUE, seriesSlug |-> << "b", "t", "c", "-", "u", "p", "-", "o", "r", "-", "d", "o", "w", "n", "-", "H", "o", "u", "r", "l", "y" >>, id |-> << "e", "4" >> ] >>,
                  conditionId  |-> << "0", "x", "c", "3" >>,
                  clobTokenIds |-> [ valid |-> TRUE, items |-> << << "7", "8" >>, << "7", "9" >> >> ],
                  outcomes     |-> [ valid |-> TRUE, items |-> << "Up", "Down" >> ],
                  endDate      |-> [ kind |-> "iso", ts |-> 1001 ] ] ],
       \* a 15m market without end date
       [ tf |-> TF_15M, series_tfs |-> { TF_15M },
         raw |-> [ id           |-> 4,
                  slug         |-> << "b", "t", "c", "-", "u", "p", "d", "o", "w", "n", "-", "1", "5", "m", "-", "1", "7", "7", "1", "2", "1", "1", "7", "0", "0" >>,
                  events       |-> << [ isDict |-> TRUE, seriesSlug |-> << "b", "t", "c", "-", "u", "p", "-", "o", "r", "-", "d", "o", "w", "n", "-", "1", "5", "m" >>, id |-> << "e", "5" >> ] >>,
                  conditionId  |-> << "0", "x", "c", "4" >>,
                  clobTokenIds |-> [ valid |-> TRUE, items |-> << << "8", "2" >> >> ],
                  outcomes     |-> [ valid |-> TRUE, items |-> << "Up", "Down" >> ],
                  endDate      |-> [ kind |-> "absent", ts |-> 0 ] ] ],
       \* a timeframe that is no alias
       [ tf |-> None, series_tfs |-> { None },
         raw |-> [ id           |-> 5,
                  slug         |-> << "b", "t", "c", "-", "u", "p", "d", "o", "w", "n", "-", "2", "h", "-", "1", "7", "7", "1", "2", "1", "1", "7", "0", "0" >>,
                  events       |-> << [ isDict |-> TRUE, seriesSlug |-> << "b", "t", "c", "-", "u", "p", "-", "o", "r", "-", "d", "o", "w", "n", "-", "2", "h" >>, id |-> << "e", "6" >> ] >>,
                  conditionId  |-> << "0", "x", "c", "5" >>,
                  clobTokenIds |-> [ valid |-> TRUE, items |-> << << "8", "3" >> >> ],
                  outcomes     |-> [ valid |-> TRUE, items |-> << "Up", "Down" >> ],
                  endDate      |-> [ kind |-> "iso", ts |-> 1000 ] ] ],
       \* a 5m market whose clobTokenIds do not parse
       [ tf |-> TF_5M, series_tfs |-> { TF_5M },
         raw |-> [ id           |-> 6,
                  slug         |-> << "b", "t", "c", "-", "u", "p", "d", "o", "w", "n", "-", "5", "m", "-", "1", "7", "7", "1", "2", "1", "2", "3", "0", "0" >>,
                  events       |-> << [ isDict |-> TRUE, seriesSlug |-> << "b", "t", "c", "-", "u", "p", "-", "o", "r", "-", "d", "o", "w", "n", "-", "5", "m" >>, id |-> << "e", "7" >> ] >>,
                  conditionId  |-> << "0", "x", "c", "6" >>,
                  clobTokenIds |-> [ valid |-> FALSE, items |-> <<  >> ],
                  outcomes     |-> [ valid |-> TRUE, items |-> << "Up", "Down" >> ],
                  endDate      |-> [ kind |-> "malformed", ts |-> 0 ] ] ] >>

\* the tuples of enabled timeframes a tracker is built with
EnabledChoices == { << TF_5M >>, << TF_5M, TF_1H >>, SUPPORTED_TIMEFRAMES }

\* match_btc_updown_market on every market a listing can hold (computed once)
MatchTable ==
    [ enabled \in EnabledChoices |->
        [ c \in 1..Len(Candidates) |-> match_btc_updown_market(Candidates[c].raw, enabled) ] ]

\* match_btc_updown_market(market, enabled_timeframes) for a listed market
MatchListed(market, enabled_timeframes) == MatchTable[enabled_timeframes][market.id]

\* grace_period_seconds (the default of MarketTracker)
GRACE_PERIOD_SECONDS == 120

\* poll_once calls of one run
MaxPolls == 3

\* json.loads of clobTokenIds / outcomes, [] when it raises
JsonList(field) == IF field.valid THEN field.items ELSE << >>

\* MarketTracker._parse_end_date
_parse_end_date(end_date) == IF end_date.kind = "iso" THEN end_date.ts ELSE 0

\* {tid: outcome for tid, outcome in zip(token_ids, outcomes)}
ZipDict(token_ids, outcomes) ==
    LET n == Min(Len(token_ids), Len(outcomes))
    IN  [ t \in { token_ids[i] : i \in 1..n } |->
            outcomes[CHOOSE i \in 1..n :
                       token_ids[i] = t /\ \A j \in (i + 1)..n : token_ids[j] # t] ]

DictEvents(events) == SelectSeq(events, LAMBDA e : e.isDict)

\* end_date_ts > 0 and now > end_date_ts + self._grace_period_seconds
IsExpired(end_date_ts, now) ==
    end_date_ts > 0 /\ now > end_date_ts + GRACE_PERIOD_SECONDS

PastExpiryAtDiscovery_Never(end_date_ts, now) == FALSE

\* _process_new: "Skip markets already past expiry"
PastExpiryAtDiscovery(end_date_ts, now) == IsExpired(end_date_ts, now)

\* the tracker's two dicts, threaded through a poll
TrackerState == [ active |-> active_markets, index |-> token_index ]

\* the index after self._token_index[tid] = slug for every tid
IndexTokens(index, token_ids, slug) ==
    [ t \in DOMAIN index \cup { token_ids[i] : i \in 1..Len(token_ids) } |->
        IF \E i \in 1..Len(token_ids) : token_ids[i] = t THEN slug ELSE index[t] ]

\* one iteration of the loop of _process_new
ProcessOne(st, raw, now) ==
    LET slug            == raw.slug
        timeframe_match == MatchListed(raw, tr_timeframes)
        events          == DictEvents(raw.events)
        token_ids       == JsonList(raw.clobTokenIds)
        outcomes        == JsonList(raw.outcomes)
        end_date_ts     == _parse_end_date(raw.endDate)
    IN  IF slug \in DOMAIN st.active THEN st
        ELSE IF timeframe_match = None THEN st
        ELSE IF token_ids = << >> \/ raw.conditionId = << >> THEN st
        ELSE IF PastExpiryAtDiscovery(end_date_ts, now) THEN st
        ELSE [ active |-> st.active @@
                          (slug :> [ slug             |-> slug,
                                     timeframe        |-> timeframe_match.timeframe,
                                     event_id         |-> IF events = << >> THEN << >>
                                                          ELSE events[1].id,
                                     window_start_ts  |-> timeframe_match.window_start_ts,
                                     condition_id     |-> raw.conditionId,
                                     token_ids        |-> token_ids,
                                     outcomes         |-> outcomes,
                                     end_date_ts      |-> end_date_ts,
                                     token_to_outcome |-> ZipDict(token_ids, outcomes) ]),
               index  |-> IndexTokens(st.index, token_ids, slug) ]

\* MarketTracker._process_new from the i-th discovered market on
RECURSIVE _process_new(_, _, _, _)
_process_new(st, discovered, i, now) ==
    IF i > Len(discovered) THEN st
    ELSE _process_new(ProcessOne(st, discovered[i], now), discovered, i + 1, now)

\* MarketTracker._check_expired
_check_expired(st, now) ==
    LET expired == { slug \in DOMAIN st.active : IsExpired(st.active[slug].end_date_ts, now) }
        TokenSet(slug) == { st.active[slug].token_ids[i] :
                              i \in 1..Len(st.active[slug].token_ids) }
        popped  == UNION { TokenSet(slug) : slug \in expired }
    IN  [ active |-> [ slug \in DOMAIN st.active \ expired |-> st.active[slug] ],
          index  |-> [ t \in DOMAIN st.index \ popped |-> st.index[t] ] ]

\* "limit": 500, scaled
PageLimit == 3

\* the GET /markets request that raises or answers no list (0: none does)
FetchFailures == 0..2

\* the listings on which a request fails: one page (the whole fetch fails),
\* two pages with the market without end date on the second, two full pages
FailingListings == { { 1, 3 }, { 1, 2, 3, 4 }, 1..6 }

\* requests a fetch of a listing of n markets makes when none fails
RequestsFor(n) == n \div PageLimit + 1

\* MarketTracker._is_target_market
_is_target_market(market) == MatchListed(market, tr_timeframes) # None

\* the loop of _fetch_active_markets from the given offset on: the request
\* numbered fail_at raises or answers no list, an empty page or a page
\* shorter than the limit is the last one
RECURSIVE FetchPages(_, _, _, _, _)
FetchPages(listing, offset, request, fail_at, all_markets) ==
    IF request = fail_at \/ offset >= Len(listing) THEN all_markets
    ELSE LET to == Min(offset + PageLimit, Len(listing))
         IN  IF to - offset < PageLimit
             THEN all_markets \o SelectSeq(SubSeq(listing, offset + 1, to), _is_target_market)
             ELSE FetchPages(listing, to, request + 1, fail_at,
                             all_markets \o SelectSeq(SubSeq(listing, offset + 1, to),
                                                      _is_target_market))

\* MarketTracker._fetch_active_markets: the target markets of the pages
\* fetched before the first failing request
_fetch_active_markets(listing, fail_at) == FetchPages(listing, 0, 1, fail_at, << >>)

\* MarketTracker.resolve_token
resolve_token(token_id) ==
    IF token_id \notin DOMAIN token_index THEN None
    ELSE LET slug == token_index[token_id]
         IN  IF slug \notin DOMAIN active_markets THEN None
             ELSE [ kind    |-> "match",
                    slug    |-> slug,
                    outcome |-> IF token_id \in DOMAIN active_markets[slug].token_to_outcome
                                THEN active_markets[slug].token_to_outcome[token_id]
                                ELSE "" ]

\* the listing made of the candidates numbered in chosen, in listing order
ListingOf(chosen) ==
    LET picked == SelectSeq([ i \in 1..Len(Candidates) |-> i ], LAMBDA i : i \in chosen)
    IN  [ k \in 1..Len(picked) |-> Candidates[picked[k]].raw ]

\* instants at which the clock is read
PollInstants == { 1119, 1120, 1121, 1122 }

\* __init__
TrackerInit ==
    /\ token_index = << >>
    /\ active_markets = << >>
    /\ tr_timeframes \in EnabledChoices
    /\ tr_now = 1119
    /\ tr_polls = 0
    /\ tr_listing = {}
    /\ tr_discovery_now = 1119
    /\ tr_added = {}
    /\ tr_expired = {}
    /\ tr_ever_expired = {}

\* the token ids of the markets of st named in slugs
TokensOf(st, slugs) ==
    UNION { { st.active[slug].token_ids[i] : i \in 1..Len(st.active[slug].token_ids) } :
              slug \in slugs }

\* what poll_once returns (the added and the expired markets, by slug and by
\* token id) and leaves in the tracker, from the tracker before, after
\* _process_new and after _check_expired
PollResult(before, processed, checked) ==
    [ st             |-> checked,
      added          |-> DOMAIN processed.active \ DOMAIN before.active,
      added_tokens   |-> TokensOf(processed, DOMAIN processed.active \ DOMAIN before.active),
      expired        |-> DOMAIN processed.active \ DOMAIN checked.active,
      expired_tokens |-> TokensOf(processed, DOMAIN processed.active \ DOMAIN checked.active) ]

PollChecked(before, processed, now2) ==
    PollResult(before, processed, _check_expired(processed, now2))

\* MarketTracker.poll_once on a listing; the clock is read twice, at now1 by
\* _process_new and at now2 by _check_expired
poll_once(st, listing, fail_at, now1, now2) ==
    PollChecked(st, _process_new(st, _fetch_active_markets(listing, fail_at), 1, now1), now2)

\* what a poll leaves in the tracker and in its history
PollApply(polled, chosen, now1, now2) ==
    /\ active_markets' = polled.st.active
    /\ token_index' = polled.st.index
    /\ tr_added' = polled.added
    /\ tr_expired' = polled.expired
    /\ tr_ever_expired' = tr_ever_expired \cup polled.expired
    /\ tr_discovery_now' = now1
    /\ tr_now' = now2
    /\ tr_listing' = chosen

\* poll_once: fetch, _process_new, _check_expired, on any listing and with a
\* clock that never goes back
PollOnce ==
    /\ tr_polls < MaxPolls
    /\ \E chosen \in SUBSET (1..Len(Candidates)), fail_at \in FetchFailures,
          now1 \in PollInstants, now2 \in PollInstants :
          /\ fail_at # 0 => chosen \in FailingListings
          /\ fail_at <= RequestsFor(Cardinality(chosen))
          /\ tr_now <= now1
          /\ now1 <= now2
          /\ PollApply(poll_once(TrackerState, ListingOf(chosen), fail_at, now1, now2),
                       chosen, now1, now2)
    /\ tr_polls' = tr_polls + 1
    /\ UNCHANGED tr_timeframes
    /\ UNCHANGED << decVars, chainVars, bisVars, normVars, scanVars, wsVars, pipeVars,
                    enrichVars, sinkVars, replayVars, recVars, polyVars, rpcVars >>

TrackerNext == PollOnce

CandidateOf(slug) == CHOOSE c \in 1..Len(Candidates) : Candidates[c].raw.slug = slug

\* C11: every market of the active set is a listed market whose slug stands
\* for an enabled timeframe that one of its series slugs stands for too; the
\* market with a 5m slug (window start 1771211700) in the 15m series is never
\* in the active set.
C11_ActiveMarketsMatchTimeframe ==
    /\ \A slug \in DOMAIN active_markets :
          LET c == Candidates[CandidateOf(slug)]
          IN  /\ c.raw.slug = slug
              /\ c.tf # None
              /\ InTuple(c.tf, tr_timeframes)
              /\ c.tf \in c.series_tfs
              /\ active_markets[slug].timeframe = c.tf
    /\ Candidates[2].raw.slug \notin DOMAIN active_markets

\* a listing with the mismatched market and the hourly market: only the
\* second is active
C11_Witness ==
    /\ { 2, 3 } \subseteq tr_listing
    /\ Candidates[3].raw.slug \in DOMAIN active_markets
    /\ active_markets[Candidates[3].raw.slug].window_start_ts = 1771211700
    /\ Candidates[2].raw.slug \notin DOMAIN active_markets

\* C12 as stated, for every active market with an end date T: a poll at
\* now > T + G removes it from the active set and leaves resolve_token
\* answering None for each of its token ids; a poll at now <= T + G leaves it
\* active and each of its token ids resolvable.
C12_Original_ExpiryBoundary ==
    [][\A slug \in DOMAIN active_markets :
          LET T    == active_markets[slug].end_date_ts
              tids == { active_markets[slug].token_ids[i] :
                          i \in 1..Len(active_markets[slug].token_ids) }
          IN  T > 0 =>
                /\ tr_now' > T + GRACE_PERIOD_SECONDS =>
                      /\ slug \notin DOMAIN active_markets'
                      /\ \A tid \in tids : resolve_token(tid)' = None
                /\ tr_now' <= T + GRACE_PERIOD_SECONDS =>
                      /\ slug \in DOMAIN active_markets'
                      /\ \A tid \in tids : resolve_token(tid)' # None]_vars

\* the boundary itself: an active market with end date T is there only while
\* the clock of the last expiry pass is at most T + G
C12_ActiveOnlyWithinGrace ==
    \A slug \in DOMAIN active_markets :
        active_markets[slug].end_date_ts > 0
        => tr_now <= active_markets[slug].end_date_ts + GRACE_PERIOD_SECONDS

\* C37 as stated: for every active market and every token id it lists,
\* resolve_token answers that market's slug, and every token id of the index
\* maps to an active market, also when two markets list the same token id.
C37_Original_TokenIndexConsistent ==
    /\ \A slug \in DOMAIN active_markets :
          \A i \in 1..Len(active_markets[slug].token_ids) :
             LET resolved == resolve_token(active_markets[slug].token_ids[i])
             IN  /\ resolved # None
                 /\ resolved.slug = slug
    /\ \A tid \in DOMAIN token_index : token_index[tid] \in DOMAIN active_markets

\* what holds: every token id of the index maps to an active market that
\* lists it, and a token id listed by one active market only resolves to it
C37_IndexPointsToListingMarket ==
    /\ \A tid \in DOMAIN token_index :
          /\ token_index[tid] \in DOMAIN active_markets
          /\ \E i \in 1..Len(active_markets[token_index[tid]].token_ids) :
                active_markets[token_index[tid]].token_ids[i] = tid
    /\ \A slug \in DOMAIN active_markets :
          \A i \in 1..Len(active_markets[slug].token_ids) :
             LET tid == active_markets[slug].token_ids[i]
             IN  (\A other \in tr_ever_expired \cup (DOMAIN active_markets \ { slug }) :
                     \A j \in 1..Len(JsonList(Candidates[CandidateOf(other)].raw.clobTokenIds)) :
                        JsonList(Candidates[CandidateOf(other)].raw.clobTokenIds)[j] # tid)
                 => (tid \in DOMAIN token_index /\ token_index[tid] = slug)

\* C38 as stated, for every poll (its fetch may fail on the first request or
\* on a later page, and its listing may lack the market): an active market
\* that is not past end date + grace at the expiry pass stays active and
\* keeps every token id it had in the index.
C38_Original_RemovedOnlyByExpiry ==
    [][\A slug \in DOMAIN active_markets :
          LET T == active_markets[slug].end_date_ts
          IN  ~(T > 0 /\ tr_now' > T + GRACE_PERIOD_SECONDS)
              => /\ slug \in DOMAIN active_markets'
                 /\ \A i \in 1..Len(active_markets[slug].token_ids) :
                       active_markets[slug].token_ids[i] \in DOMAIN token_index
                       => active_markets[slug].token_ids[i] \in DOMAIN token_index']_vars

\* what holds: whatever the fetch did, a poll removes exactly the active
\* markets that are past end date + grace at its expiry pass
C38_MarketsLeaveOnlyByExpiry ==
    [][\A slug \in DOMAIN active_markets :
          LET T == active_markets[slug].end_date_ts
          IN  slug \in DOMAIN active_markets'
              <=> ~(T > 0 /\ tr_now' > T + GRACE_PERIOD_SECONDS)]_vars

\* the end date of the listed market with this slug, as the listing gives it
ListedEndDateTs(slug) ==
    LET endDate == Candidates[CandidateOf(slug)].raw.endDate
    IN  IF endDate.kind = "iso" THEN endDate.ts ELSE 0

\* C29: with a clock that never goes back, a market that a poll has reported
\* as expired is not in the active set after that poll nor after any later
\* one, and no later poll reports it as added, whatever the listing returns;
\* and a market reported as added has no end date or was discovered at a
\* clock of at most end date + grace period.
C29_LifecycleIsOneWay ==
    [][/\ \A slug \in tr_ever_expired :
             /\ slug \notin DOMAIN active_markets'
             /\ slug \notin tr_added'
       /\ \A slug \in tr_ever_expired' : slug \notin DOMAIN active_markets'
       /\ \A slug \in tr_added' :
             ListedEndDateTs(slug) > 0
             => tr_discovery_now' <= ListedEndDateTs(slug) + GRACE_PERIOD_SECONDS]_vars

\* the 5m market was reported as expired by an earlier poll and the listing
\* of the last poll returned it again; the hourly market was added by the
\* last poll, one second before the end of its grace period
C29_Witness ==
    /\ Candidates[1].raw.slug \in tr_ever_expired \ tr_expired
    /\ 1 \in tr_listing
    /\ Candidates[1].raw.slug \notin DOMAIN active_markets
    /\ Candidates[1].raw.slug \notin tr_added
    /\ Candidates[3].raw.slug \in tr_added
    /\ tr_discovery_now = 1121

-----------------------------------------------------------------------------
(***************************************************************************)
(* Batch pipeline (pipeline.py): the trades of one market are fetched,     *)
(* normalized and, when an rpc_url is configured, enriched from receipts   *)
(***************************************************************************)

\* markets fetched in a run
MaxFetches == 2

ValueOrZero(r) == IF r.ok THEN r.val ELSE 0

\* _parse_rpc_int of a text value
_parse_rpc_int(value) ==
    IF value = None THEN 0
    ELSE ValueOrZero(IF StartsWith0x(value) THEN PyInt16(value) ELSE PyInt10(value))

\* _ms_to_utc: the second and the millisecond the ISO text shows
_ms_to_utc(timestamp_ms) == << "utc", timestamp_ms \div 1000, timestamp_ms % 1000 >>

\* number of the block that holds no timestamp the node can answer for
UnknownBlock == MaxPipeBlock + 1

\* eth_getTransactionReceipt: transaction n is the one of block n of the
\* chain of the real-time section; transaction 4 is unknown to the node and
\* transaction 5 sits in a block the node cannot return
ReceiptOf(tx_hash) ==
    IF \E n \in 1..MaxPipeBlock : tx_hash = Lower(TxText(n))
    THEN LET n == CHOOSE k \in 1..MaxPipeBlock : tx_hash = Lower(TxText(k))
         IN  [ blockNumber |-> HexText(n), logs |-> PipeChain[n] ]
    ELSE IF tx_hash = Lower(TxText(5))
         THEN [ blockNumber |-> HexText(UnknownBlock), logs |-> PipeChain[1] ]
         ELSE None

\* eth_getBlockByNumber of that chain
EnrichBlockOf(block_number) ==
    IF block_number \in 1..MaxPipeBlock THEN HeadOf(block_number, TRUE) ELSE None

CacheTimestamp(block_number, cache, timestamp) ==
    [ ts |-> timestamp, cache |-> cache @@ (block_number :> timestamp) ]

\* get_block_timestamp past the cache test: block is what the node answered
TimestampOfBlock(block_number, cache, block) ==
    IF block = None THEN [ ts |-> 0, cache |-> cache ]
    ELSE CacheTimestamp(block_number, cache, parse_hex_int(block.timestamp))

\* PolygonRpcClient.get_block_timestamp with a cache
get_block_timestamp_cached(block_number, cache) ==
    IF block_number \in DOMAIN cache
    THEN [ ts |-> cache[block_number], cache |-> cache ]
    ELSE TimestampOfBlock(block_number, cache, EnrichBlockOf(block_number))

\* insertion of a log index into a sorted list (list.sort() of ints)
RECURSIVE InsertSorted(_, _)
InsertSorted(sorted, x) ==
    IF sorted = << >> THEN << x >>
    ELSE IF x < Head(sorted) THEN << x >> \o sorted
    ELSE << Head(sorted) >> \o InsertSorted(Tail(sorted), x)

AppendIndex(map, asset, log_index) ==
    IF asset \in DOMAIN map
    THEN [ map EXCEPT ![asset] = InsertSorted(@, log_index) ]
    ELSE map @@ (asset :> << log_index >>)

AcceptsAddress_Any(address) == TRUE

\* decoded.address in EXCHANGE_ADDRESSES
AcceptsAddress(address) == address \in EXCHANGE_ADDRESSES

\* asset_to_log_indexes of a receipt's logs, each list sorted
\* the body of the loop over the receipt's logs, for one decoded log
AddDecoded(map, decoded) ==
    IF decoded = None THEN map
    ELSE IF ~AcceptsAddress(decoded.address) THEN map
    ELSE AppendIndex(AppendIndex(map, IntText(decoded.maker_asset_id), decoded.log_index),
                     IntText(decoded.taker_asset_id), decoded.log_index)

RECURSIVE AssetToLogIndexes(_, _)
AssetToLogIndexes(logs, n) ==
    IF n = 0 THEN [ a \in {} |-> << >> ]
    ELSE AddDecoded(AssetToLogIndexes(logs, n - 1), decode_order_filled_log(logs[n]))

\* the transaction hashes the API rows carry, lower-cased
EnrichTxHashes == { Lower(TxText(n)) : n \in 1..5 }

\* per transaction hash, asset_to_log_indexes of its receipt (computed once)
LogIndexesOfReceipt(receipt) ==
    IF receipt = None THEN [ a \in {} |-> << >> ]
    ELSE AssetToLogIndexes(receipt.logs, Len(receipt.logs))

ParsedLogIndexes == [ tx_hash \in EnrichTxHashes |-> LogIndexesOfReceipt(ReceiptOf(tx_hash)) ]

\* the enricher's three dictionaries, threaded through a call
EnricherState ==
    [ block_ts_cache |-> en_block_ts_cache,
      receipt_cache  |-> en_receipt_cache,
      usage_counter  |-> en_usage ]

\* the tail of _get_parsed_receipt: got is what get_block_timestamp answered
CacheParsed(st, tx_hash, got, asset_to_log_indexes) ==
    IF got.ts = 0
    THEN [ parsed |-> None,
           st |-> [ st EXCEPT !.block_ts_cache = got.cache,
                              !.receipt_cache = @ @@ (tx_hash :> None) ] ]
    ELSE [ parsed |-> [ block_timestamp      |-> got.ts,
                        asset_to_log_indexes |-> asset_to_log_indexes ],
           st |-> [ st EXCEPT !.block_ts_cache = got.cache,
                              !.receipt_cache = @ @@
                                (tx_hash :> [ block_timestamp      |-> got.ts,
                                              asset_to_log_indexes |-> asset_to_log_indexes ]) ] ]

\* _get_parsed_receipt past the cache test: receipt is what the node answered
ParseReceipt(st, tx_hash, receipt) ==
    IF receipt = None
    THEN [ parsed |-> None, st |-> [ st EXCEPT !.receipt_cache = @ @@ (tx_hash :> None) ] ]
    ELSE CacheParsed(st, tx_hash,
                     get_block_timestamp_cached(_parse_rpc_int(receipt.blockNumber),
                                                st.block_ts_cache),
                     ParsedLogIndexes[tx_hash])

\* TradeTimestampEnricher._get_parsed_receipt, given the RPC answered
_get_parsed_receipt(st, tx_hash) ==
    IF tx_hash \in DOMAIN st.receipt_cache
    THEN [ parsed |-> st.receipt_cache[tx_hash], st |-> st ]
    ELSE ParseReceipt(st, tx_hash, ReceiptOf(tx_hash))

\* a cell of a row that holds a Python int (the empty cell is the empty text)
IntCell(n) == [ int |-> n ]

EnrichedTimestampMs_RowSecond(row, block_ts, log_index) == row.trade_timestamp * 1000 + log_index

\* timestamp_ms = block_ts * 1000 + int(log_index)
EnrichedTimestampMs(row, block_ts, log_index) == block_ts * 1000 + log_index

\* log_indexes[usage_index] if usage_index < len(log_indexes) else log_indexes[-1]
PickLogIndex(log_indexes, usage_index) ==
    IF usage_index < Len(log_indexes) THEN log_indexes[usage_index + 1]
    ELSE log_indexes[Len(log_indexes)]

UsageOf(usage_counter, usage_key) ==
    IF usage_key \in DOMAIN usage_counter THEN usage_counter[usage_key] ELSE 0

\* the three assignments to the row
StampRow(row, timestamp_ms) ==
    [ row EXCEPT !.timestamp_ms = IntCell(timestamp_ms),
                 !.server_received_ms = EmptyText,
                 !.trade_time_ms = _ms_to_utc(timestamp_ms) ]

\* the loop body of enrich_rows once the receipt lookup has answered got
EnrichFromParsed(row, tx_hash, got) ==
    IF got.parsed = None THEN [ row |-> row, st |-> got.st ]
    ELSE IF row.asset \notin DOMAIN got.parsed.asset_to_log_indexes
    THEN [ row |-> row, st |-> got.st ]
    ELSE [ row |-> StampRow(row,
                     EnrichedTimestampMs(row, got.parsed.block_timestamp,
                        PickLogIndex(got.parsed.asset_to_log_indexes[row.asset],
                                     UsageOf(got.st.usage_counter, << tx_hash, row.asset >>)))),
           st  |-> [ got.st EXCEPT !.usage_counter =
                       (<< tx_hash, row.asset >> :> UsageOf(@, << tx_hash, row.asset >>) + 1) @@ @ ] ]

\* one iteration of the loop of enrich_rows: the row and the state afterwards
EnrichRow(row, tx_hash, st) ==
    IF tx_hash = EmptyText \/ row.asset = EmptyText THEN [ row |-> row, st |-> st ]
    ELSE EnrichFromParsed(row, tx_hash, _get_parsed_receipt(st, tx_hash))

\* enrich_rows over rows[i..]: the rows and the state afterwards; the call
\* raises (rows lost, dictionaries as they were at that point) when the
\* receipt request of transaction failing_tx fails after its retries
RECURSIVE enrich_rows(_, _, _, _)
RECURSIVE EnrichLoop(_, _, _, _)
enrich_rows(trades, i, st, failing_tx) ==
    IF i > Len(trades) THEN [ raised |-> FALSE, rows |-> trades, st |-> st ]
    ELSE IF /\ Lower(trades[i].transaction_hash) = failing_tx
            /\ trades[i].asset # EmptyText
            /\ failing_tx \notin DOMAIN st.receipt_cache
    THEN [ raised |-> TRUE, rows |-> << >>, st |-> st ]
    ELSE EnrichLoop(trades, i, EnrichRow(trades[i], Lower(trades[i].transaction_hash), st),
                    failing_tx)

\* the rest of the loop after row i became r.row
EnrichLoop(trades, i, r, failing_tx) ==
    enrich_rows([ trades EXCEPT ![i] = r.row ], i + 1, r.st, failing_tx)

\* _normalize_trade_record: the fields of the row the timestamp stage reads
\* or writes (price, size and the texts derived from them are left out)
_normalize_trade_record(raw_trade) ==
    IF ~raw_trade.isDict THEN None
    ELSE [ trade_timestamp    |-> IF raw_trade.hasTimestamp
                                  THEN raw_trade.timestamp ELSE 0,
           side               |-> raw_trade.side,
           asset              |-> raw_trade.asset,
           transaction_hash   |-> raw_trade.transactionHash,
           timestamp_ms       |-> EmptyText,
           server_received_ms |-> EmptyText,
           trade_time_ms      |-> EmptyText ]

\* an entry of the answer of /trades; timestamp 0 stands for an absent one
RawTrade(tx, asset, timestamp) ==
    [ isDict |-> TRUE, transactionHash |-> tx, asset |-> asset, side |-> "BUY",
      hasTimestamp |-> timestamp # 0, timestamp |-> timestamp ]

\* entries /trades may hold: trades of transaction 3 (token 77 in one fill,
\* the quote asset in two) stamped with the block's second, a trade of
\* transaction 2 without timestamp, a trade of a token its transaction does
\* not move, trades of the two transactions without usable receipt, a trade
\* without hash and an entry that is not an object
Trade77 == RawTrade(TxText(3), IntText(77), PipeBlockTs(3))
TradeQuote == RawTrade(TxText(3), IntText(0), PipeBlockTs(3))
TradeNoTimestamp == RawTrade(TxText(2), IntText(78), 0)

RawTrades ==
    { Trade77, TradeQuote, TradeNoTimestamp,
      RawTrade(TxText(1), IntText(78), PipeBlockTs(1)),
      RawTrade(TxText(4), IntText(77), PipeBlockTs(1)),
      RawTrade(TxText(5), IntText(77), PipeBlockTs(1)),
      RawTrade(EmptyText, IntText(77), PipeBlockTs(1)),
      [ isDict |-> FALSE ] }

\* the answers of /trades for a market: nothing, one entry, and lists in
\* which a transaction and asset come back more than once
TradePages ==
    { << >> } \cup { << t >> : t \in RawTrades }
    \cup { << TradeNoTimestamp, TradeNoTimestamp >>,
           << TradeQuote, Trade77, TradeQuote >>,
           << [ isDict |-> FALSE ], Trade77, TradeNoTimestamp >> }

\* the list comprehension over the page: rows of the entries that normalize
RECURSIVE NormalizedRows(_, _)
NormalizedRows(page, n) ==
    IF n = 0 THEN << >>
    ELSE IF ~page[n].isDict THEN NormalizedRows(page, n - 1)
    ELSE Append(NormalizedRows(page, n - 1), _normalize_trade_record(page[n]))

EnrichIdle ==
    /\ en_rpc = FALSE
    /\ en_block_ts_cache = EmptyCache
    /\ en_receipt_cache = << >>
    /\ en_usage = << >>
    /\ en_page = << >>
    /\ en_rows = << >>
    /\ en_fetches = 0
    /\ en_pc = "idle"

\* run_pipeline up to the first market: the enricher exists iff rpc_url is set
EnrichInit ==
    /\ en_rpc \in BOOLEAN
    /\ en_block_ts_cache = EmptyCache
    /\ en_receipt_cache = << >>
    /\ en_usage = << >>
    /\ en_page = << >>
    /\ en_rows = << >>
    /\ en_fetches = 0
    /\ en_pc = "idle"

\* what enrich_rows left behind: the rows and the enricher's dictionaries
Enriched(r) ==
    /\ en_rows' = r.rows
    /\ en_block_ts_cache' = r.st.block_ts_cache
    /\ en_receipt_cache' = r.st.receipt_cache
    /\ en_usage' = r.st.usage_counter
    /\ en_pc' = IF r.raised THEN "raised" ELSE "returned"

\* the end of _fetch_all_trades_for_market: "if receipt_enricher is not None
\* and all_trades: receipt_enricher.enrich_rows(all_trades)"
FetchResult(all_trades, failing_tx) ==
    IF en_rpc /\ all_trades # << >>
    THEN Enriched(enrich_rows(all_trades, 1, EnricherState, failing_tx))
    ELSE /\ en_rows' = all_trades
         /\ en_pc' = "returned"
         /\ UNCHANGED << en_block_ts_cache, en_receipt_cache, en_usage >>

\* _fetch_all_trades_for_market of the next market, the requests answered
FetchAllTrades ==
    /\ en_pc # "raised"
    /\ en_fetches < MaxFetches
    /\ \E page \in TradePages :
         /\ en_page' = page
         /\ FetchResult(NormalizedRows(page, Len(page)), None)
    /\ en_fetches' = en_fetches + 1
    /\ UNCHANGED en_rpc
    /\ EnrichFrame

\* the same call when a receipt request fails after its retries: the
\* exception leaves _fetch_all_trades_for_market and no rows are returned
FetchAllTradesRaises ==
    /\ en_pc # "raised"
    /\ en_fetches < MaxFetches
    /\ en_rpc
    /\ \E page \in TradePages, failing_tx \in EnrichTxHashes :
         /\ en_page' = page
         /\ FetchResult(NormalizedRows(page, Len(page)), failing_tx)
    /\ en_fetches' = en_fetches + 1
    /\ en_pc' = "raised"          \* only the runs in which enrich_rows raised
    /\ UNCHANGED en_rpc
    /\ EnrichFrame

EnrichNext == FetchAllTrades \/ FetchAllTradesRaises

\* the row of en_rows at position i was enriched
IsEnriched(i) == en_rows[i].timestamp_ms # EmptyText

\* the exchange's OrderFilled logs of the receipt of tx_hash that move asset
FillIndexesOf(tx_hash, asset) ==
    LET receipt == ReceiptOf(tx_hash)
    IN  IF receipt = None THEN {}
        ELSE { parse_hex_int(receipt.logs[k].logIndex) : k \in
                 { j \in 1..Len(receipt.logs) :
                     LET d == decode_order_filled_log(receipt.logs[j])
                     IN  /\ d # None
                         /\ d.address \in EXCHANGE_ADDRESSES
                         /\ asset \in { IntText(d.maker_asset_id), IntText(d.taker_asset_id) } } }

-----------------------------------------------------------------------------
(***************************************************************************)
(* The backfill's JSON-RPC client: RpcClient.call and its error classes    *)
(***************************************************************************)

\* endpoints, retries and calls of the runs explored
MaxUrls == 3
MaxRetries == 3
MaxCalls == 2

\* body.get("result") of the responses without error: a quantity, or None
\* when the member is absent
RpcResults == { [ present |-> TRUE, value |-> << "0", "x", "1" >> ],
                [ present |-> FALSE, value |-> EmptyText ] }

Rotate_Stay(idx, n) == idx

Rotate_NoWrap(idx, n) == idx + 1

\* RpcClient._rotate
Rotate(idx, n) == (idx + 1) % n

\* time.sleep(min(1.2 * (attempt + 1), 4)), in tenths of a second
BackoffTenths(attempt) == Min(12 * (attempt + 1), 40)

RpcIdle ==
    /\ rpc_urls = 0
    /\ rpc_max_retries = 0
    /\ url_idx = 0
    /\ rpc_attempt = 0
    /\ rpc_log = << >>
    /\ rpc_result = None
    /\ rpc_calls = 0
    /\ rpc_pc = "idle"

\* RpcClient.__init__
RpcInit ==
    /\ rpc_urls \in 1..MaxUrls
    /\ rpc_max_retries \in 0..MaxRetries
    /\ url_idx = 0
    /\ rpc_attempt = 0
    /\ rpc_log = << >>
    /\ rpc_result = None
    /\ rpc_calls = 0
    /\ rpc_pc = "idle"

RpcUnchangedConfig == UNCHANGED << rpc_urls, rpc_max_retries >>

\* the state after a failed attempt that the loop continues from: the raise
\* after the loop follows at once when no attempt is left
AfterRetryableFailure(entry) ==
    /\ url_idx' = Rotate(url_idx, rpc_urls)
    /\ rpc_log' = Append(rpc_log, entry)
    /\ rpc_attempt' = rpc_attempt + 1
    /\ rpc_pc' = IF rpc_attempt + 1 < rpc_max_retries THEN "calling" ELSE "raised"
    /\ UNCHANGED << rpc_result, rpc_calls >>

\* call() is entered: range(self.max_retries) may be empty
RpcCall ==
    /\ rpc_pc # "calling"
    /\ rpc_calls < MaxCalls
    /\ rpc_calls' = rpc_calls + 1
    /\ rpc_attempt' = 0
    /\ rpc_log' = << >>
    /\ rpc_result' = None
    /\ rpc_pc' = IF rpc_max_retries > 0 THEN "calling" ELSE "raised"
    /\ UNCHANGED url_idx
    /\ RpcUnchangedConfig
    /\ RpcFrame

\* an attempt whose POST, status check or JSON parsing raises
RpcAttemptException ==
    /\ rpc_pc = "calling"
    /\ AfterRetryableFailure([ url |-> url_idx, kind |-> "exception", message |-> EmptyText,
                               result |-> None, slept |-> BackoffTenths(rpc_attempt) ])
    /\ RpcUnchangedConfig
    /\ RpcFrame

\* an attempt answered by a JSON-RPC error
RpcAttemptError ==
    /\ rpc_pc = "calling"
    /\ \E msg \in ErrorMessages :
         IF _is_retryable_rpc_error(msg)
         THEN AfterRetryableFailure([ url |-> url_idx, kind |-> "error", message |-> msg,
                                      result |-> None, slept |-> BackoffTenths(rpc_attempt) ])
         ELSE /\ rpc_log' = Append(rpc_log, [ url |-> url_idx, kind |-> "error", message |-> msg,
                                              result |-> None, slept |-> 0 ])
              /\ rpc_pc' = "raised"
              /\ UNCHANGED << url_idx, rpc_attempt, rpc_result, rpc_calls >>
    /\ RpcUnchangedConfig
    /\ RpcFrame

\* an attempt answered without error: return body.get("result")
RpcAttemptResult ==
    /\ rpc_pc = "calling"
    /\ \E r \in RpcResults :
         /\ rpc_log' = Append(rpc_log, [ url |-> url_idx, kind |-> "result",
                                         message |-> EmptyText, result |-> r, slept |-> 0 ])
         /\ rpc_result' = IF r.present THEN r.value ELSE None
    /\ rpc_pc' = "returned"
    /\ UNCHANGED << url_idx, rpc_attempt, rpc_calls >>
    /\ RpcUnchangedConfig
    /\ RpcFrame

RpcNext == RpcCall \/ RpcAttemptException \/ RpcAttemptError \/ RpcAttemptResult

\* attempt k of the running call failed in a way the client retries
RetriedFailure(k) ==
    \/ rpc_log[k].kind = "exception"
    \/ rpc_log[k].kind = "error" /\ rpc_log[k].message \in { MsgRequestTimeout, MsgQueryTimeout }

\* attempt k was answered by an error that matches no retryable keyword
FatalError(k) ==
    rpc_log[k].kind = "error" /\ rpc_log[k].message \in { MsgReverted, MsgRangeTooLarge }

\* C15: a call makes at most max_retries attempts; it returns the result of
\* the first attempt that succeeds; after each transport exception or
\* retryable error the cursor moves to the next endpoint and, while attempts
\* are left, the next attempt uses it; when max_retries attempts have failed
\* the call has raised and makes no further attempt.
C15_BoundedRetriesWithRotation ==
    /\ Len(rpc_log) <= rpc_max_retries
    /\ \A k \in 1..Len(rpc_log) :
         /\ k < Len(rpc_log) =>
              /\ RetriedFailure(k)
              /\ rpc_log[k + 1].url = (rpc_log[k].url + 1) % rpc_urls
         /\ k = Len(rpc_log) /\ RetriedFailure(k) =>
              /\ url_idx = (rpc_log[k].url + 1) % rpc_urls
              /\ rpc_pc = IF k < rpc_max_retries THEN "calling" ELSE "raised"
    /\ rpc_pc = "returned" =>
         /\ Len(rpc_log) >= 1
         /\ rpc_log[Len(rpc_log)].kind = "result"
         /\ rpc_result = IF rpc_log[Len(rpc_log)].result.present
                         THEN rpc_log[Len(rpc_log)].result.value ELSE None
    /\ rpc_pc = "raised" =>
         \/ Len(rpc_log) = rpc_max_retries /\ \A k \in 1..Len(rpc_log) : RetriedFailure(k)
         \/ Len(rpc_log) >= 1 /\ FatalError(Len(rpc_log))
    /\ rpc_pc = "calling" => Len(rpc_log) < rpc_max_retries

\* C35: the cursor is always an index into urls; an attempt that fails with
\* a transport exception or a retryable error moves it to the next index,
\* cyclically; a successful attempt, a non-retryable error and the entry
\* into call leave it as it is, so a call starts where the previous one
\* stopped; urls and max_retries never change.
C35_RotationCursor ==
    /\ [](0 <= url_idx /\ url_idx < rpc_urls)
    /\ [][/\ rpc_urls' = rpc_urls
          /\ rpc_max_retries' = rpc_max_retries
          /\ rpc_calls' # rpc_calls => url_idx' = url_idx
          /\ (rpc_pc = "calling" /\ Len(rpc_log') = Len(rpc_log) + 1)
             => LET entry == rpc_log'[Len(rpc_log')]
                IN  IF \/ entry.kind = "exception"
                       \/ /\ entry.kind = "error"
                          /\ entry.message \in { MsgRequestTimeout, MsgQueryTimeout }
                    THEN url_idx' = IF url_idx + 1 = rpc_urls THEN 0 ELSE url_idx + 1
                    ELSE url_idx' = url_idx]_vars

\* on a client with two endpoints whose first call left the cursor at 1, the
\* second call's first attempt used endpoint 1, failed, and wrapped the
\* cursor to 0; its second attempt was answered with a non-retryable error
C35_Witness ==
    /\ rpc_calls = 2
    /\ rpc_urls = 2
    /\ rpc_pc = "raised"
    /\ Len(rpc_log) = 2
    /\ rpc_log[1].url = 1
    /\ rpc_log[1].kind = "exception"
    /\ rpc_log[2].url = 0
    /\ rpc_log[2].kind = "error"
    /\ rpc_log[2].message = MsgReverted
    /\ url_idx = 0

\* the last allowed attempt of a second call succeeded after an exception
\* and a retryable error, on a client with two endpoints
C15_Witness ==
    /\ rpc_pc = "returned"
    /\ rpc_calls = 2
    /\ rpc_urls = 2
    /\ rpc_max_retries = 3
    /\ Len(rpc_log) = 3
    /\ rpc_log[1].kind = "exception"
    /\ rpc_log[2].kind = "error"
    /\ rpc_result # None

\* C16: an error response whose message matches no retryable keyword ends
\* the call on that attempt: the call raises, no later attempt is made, the
\* endpoint cursor stays where it was and no backoff sleep is taken.
C16_FatalErrorFailsOnSameAttempt ==
    \A k \in 1..Len(rpc_log) :
      FatalError(k) =>
        /\ k = Len(rpc_log)
        /\ rpc_pc = "raised"
        /\ url_idx = rpc_log[k].url
        /\ rpc_log[k].slept = 0
        /\ rpc_attempt = k - 1

\* a "range too large" error on the second of three attempts
C16_Witness ==
    /\ rpc_pc = "raised"
    /\ rpc_max_retries = 3
    /\ rpc_urls >= 2
    /\ Len(rpc_log) = 2
    /\ rpc_log[1].kind = "exception"
    /\ rpc_log[2].message = MsgRangeTooLarge


-----------------------------------------------------------------------------
(***************************************************************************)
(* The JSON-RPC client of the real-time pipeline and of the enricher:      *)
(* PolygonRpcClient.call                                                   *)
(***************************************************************************)

\* backoff_seconds of the clients explored, in tenths of a second
PolyBackoffs == { 10, 25 }

\* _sleep_backoff: min(backoff_seconds * 2**attempt, 4.0), in tenths
_sleep_backoff(backoff, attempt) == Min(backoff * Pow(2, attempt), 40)

PolyIdle ==
    /\ poly_max_retries = 0
    /\ poly_backoff = 0
    /\ poly_request_id = 0
    /\ poly_attempt = 0
    /\ poly_log = << >>
    /\ poly_result = None
    /\ poly_calls = 0
    /\ poly_pc = "idle"

\* PolygonRpcClient.__init__
PolyInit ==
    /\ poly_max_retries \in 0..MaxRetries
    /\ poly_backoff \in PolyBackoffs
    /\ poly_request_id = 1
    /\ poly_attempt = 0
    /\ poly_log = << >>
    /\ poly_result = None
    /\ poly_calls = 0
    /\ poly_pc = "idle"

PolyUnchangedConfig == UNCHANGED << poly_max_retries, poly_backoff >>

\* a failed attempt: _sleep_backoff(attempt); continue -- and the raise
\* after the loop when no attempt is left
PolyAfterFailure(kind, message) ==
    /\ poly_log' = Append(poly_log, [ id |-> poly_request_id, kind |-> kind,
                                      message |-> message,
                                      slept |-> _sleep_backoff(poly_backoff, poly_attempt) ])
    /\ poly_request_id' = poly_request_id + 1
    /\ poly_attempt' = poly_attempt + 1
    /\ poly_pc' = IF poly_attempt + 1 < poly_max_retries THEN "calling" ELSE "raised"
    /\ UNCHANGED << poly_result, poly_calls >>

\* call() is entered
PolyCall ==
    /\ poly_pc # "calling"
    /\ poly_calls < MaxCalls
    /\ poly_calls' = poly_calls + 1
    /\ poly_attempt' = 0
    /\ poly_log' = << >>
    /\ poly_result' = None
    /\ poly_pc' = IF poly_max_retries > 0 THEN "calling" ELSE "raised"
    /\ UNCHANGED poly_request_id
    /\ PolyUnchangedConfig
    /\ PolyFrame

\* an attempt whose POST, status check or JSON parsing raises
PolyAttemptException ==
    /\ poly_pc = "calling"
    /\ PolyAfterFailure("exception", EmptyText)
    /\ PolyUnchangedConfig
    /\ PolyFrame

\* an attempt answered by a JSON-RPC error, whatever its message
PolyAttemptError ==
    /\ poly_pc = "calling"
    /\ \E msg \in ErrorMessages : PolyAfterFailure("error", msg)
    /\ PolyUnchangedConfig
    /\ PolyFrame

\* an attempt answered without error: return body.get("result")
PolyAttemptResult ==
    /\ poly_pc = "calling"
    /\ \E r \in RpcResults :
         /\ poly_result' = IF r.present THEN r.value ELSE None
         /\ poly_log' = Append(poly_log, [ id |-> poly_request_id, kind |-> "result",
                                           message |-> EmptyText, slept |-> 0 ])
    /\ poly_request_id' = poly_request_id + 1
    /\ poly_pc' = "returned"
    /\ UNCHANGED << poly_attempt, poly_calls >>
    /\ PolyUnchangedConfig
    /\ PolyFrame

PolyNext == PolyCall \/ PolyAttemptException \/ PolyAttemptError \/ PolyAttemptResult

\* C17 (as stated): an attempt of PolygonRpcClient.call answered by an error
\* that matches no retryable keyword ends the call at once -- it is the last
\* attempt, the call has raised and no backoff sleep was taken.
C17_Original_FatalErrorFailsAtOnce ==
    \A k \in 1..Len(poly_log) :
      (poly_log[k].kind = "error" /\ poly_log[k].message \in { MsgReverted, MsgRangeTooLarge }) =>
        /\ k = Len(poly_log)
        /\ poly_pc = "raised"
        /\ poly_log[k].slept = 0

-----------------------------------------------------------------------------
(***************************************************************************)
(* recorder.py: OrderBookRecorder, the discovery thread and the callbacks  *)
(* of its ClobWebSocket                                                    *)
(*                                                                         *)
(* Two threads: the main thread polls the tracker and sends incremental    *)
(* subscriptions; the websocket thread opens connections and, in _on_open, *)
(* subscribes everything the index holds.  The tracker's lock makes a poll *)
(* pass and get_all_token_ids atomic, the websocket's lock makes a send    *)
(* atomic; everything between them interleaves.                            *)
(***************************************************************************)

\* connections opened in one run
MaxRecConnects == 2

\* what the listing returns to the recorder's polls: the 5m market, the
\* hourly market and the market without end date, in any combination
RecListings == SUBSET { 1, 3, 4 }

\* instants at which the recorder's polls read the clock
RecInstants == { 1120, 1121 }

RecorderIdle ==
    /\ rec_pc = "start"
    /\ all_new_tokens = {}
    /\ all_old_tokens = {}
    /\ rec_ws_pc = "not_started"
    /\ rec_socket = FALSE
    /\ is_connected = FALSE
    /\ all_tokens = {}
    /\ rec_subscribed = {}
    /\ rec_unsubscribed = {}
    /\ rec_connects = 0

\* OrderBookRecorder.__init__
RecorderInit == RecorderIdle

\* ClobWebSocket._send of a subscribe or unsubscribe message carrying
\* token_ids: it reaches the peer when the socket is open, and is dropped
\* with a warning otherwise
_send(sent, token_ids) == IF rec_socket THEN sent \cup token_ids ELSE sent

\* subscribe_initial, subscribe, unsubscribe: nothing is sent for no token
SendTokens(sent, token_ids) == IF token_ids = {} THEN sent ELSE _send(sent, token_ids)

RecPollChoice(chosen, now1, now2) ==
    /\ tr_polls < MaxPolls
    /\ tr_now <= now1
    /\ now1 <= now2
    /\ tr_polls' = tr_polls + 1
    /\ UNCHANGED tr_timeframes

\* run: the first poll, _create_writers, then self._ws.start()
RecRun ==
    /\ rec_pc = "start"
    /\ \E chosen \in RecListings, now1 \in RecInstants, now2 \in RecInstants :
          /\ RecPollChoice(chosen, now1, now2)
          /\ PollApply(poll_once(TrackerState, ListingOf(chosen), 0, now1, now2),
                       chosen, now1, now2)
    /\ rec_pc' = "idle"
    /\ rec_ws_pc' = "connecting"
    /\ UNCHANGED << all_new_tokens, all_old_tokens, rec_socket, is_connected, all_tokens,
                    rec_subscribed, rec_unsubscribed, rec_connects >>
    /\ RecorderFrame

RecPolled(polled, chosen, now1, now2) ==
    /\ PollApply(polled, chosen, now1, now2)
    /\ all_new_tokens' = polled.added_tokens
    /\ all_old_tokens' = polled.expired_tokens

\* _discovery_loop: poll_once
RecPoll ==
    /\ rec_pc = "idle"
    /\ \E chosen \in RecListings, now1 \in RecInstants, now2 \in RecInstants :
          /\ RecPollChoice(chosen, now1, now2)
          /\ RecPolled(poll_once(TrackerState, ListingOf(chosen), 0, now1, now2),
                       chosen, now1, now2)
    /\ rec_pc' = "polled"
    /\ UNCHANGED << rec_ws_pc, rec_socket, is_connected, all_tokens, rec_subscribed,
                    rec_unsubscribed, rec_connects >>
    /\ RecorderFrame

\* _subscribe_markets up to `if all_new_tokens and self._ws.is_connected`
RecSubscribeTest ==
    /\ rec_pc = "polled"
    /\ rec_pc' = IF all_new_tokens # {} /\ is_connected THEN "send" ELSE "unsubscribe"
    /\ UNCHANGED << all_new_tokens, all_old_tokens, rec_ws_pc, rec_socket, is_connected,
                    all_tokens, rec_subscribed, rec_unsubscribed, rec_connects >>
    /\ UNCHANGED trackerVars
    /\ RecorderFrame

\* self._ws.subscribe(all_new_tokens)
RecSubscribeSend ==
    /\ rec_pc = "send"
    /\ rec_subscribed' = SendTokens(rec_subscribed, all_new_tokens)
    /\ rec_pc' = "unsubscribe"
    /\ UNCHANGED << all_new_tokens, all_old_tokens, rec_ws_pc, rec_socket, is_connected,
                    all_tokens, rec_unsubscribed, rec_connects >>
    /\ UNCHANGED trackerVars
    /\ RecorderFrame

\* _unsubscribe_markets(expired), then the wait of the loop
RecUnsubscribe ==
    /\ rec_pc = "unsubscribe"
    /\ rec_unsubscribed' = SendTokens(rec_unsubscribed, all_old_tokens)
    /\ rec_pc' = "idle"
    /\ all_new_tokens' = {}
    /\ all_old_tokens' = {}
    /\ UNCHANGED << rec_ws_pc, rec_socket, is_connected, all_tokens, rec_subscribed,
                    rec_connects >>
    /\ UNCHANGED trackerVars
    /\ RecorderFrame

\* _connect_loop: run_forever opens the socket of a new WebSocketApp
RecSocketOpen ==
    /\ rec_ws_pc = "connecting"
    /\ rec_connects < MaxRecConnects
    /\ rec_connects' = rec_connects + 1
    /\ rec_socket' = TRUE
    /\ rec_subscribed' = {}
    /\ rec_unsubscribed' = {}
    /\ rec_ws_pc' = "on_open"
    /\ UNCHANGED << rec_pc, all_new_tokens, all_old_tokens, is_connected, all_tokens >>
    /\ UNCHANGED trackerVars
    /\ RecorderFrame

\* _on_open: self._connected.set() (and the heartbeat)
RecOnOpen ==
    /\ rec_ws_pc = "on_open"
    /\ is_connected' = TRUE
    /\ rec_ws_pc' = "callback"
    /\ UNCHANGED << rec_pc, all_new_tokens, all_old_tokens, rec_socket, all_tokens,
                    rec_subscribed, rec_unsubscribed, rec_connects >>
    /\ UNCHANGED trackerVars
    /\ RecorderFrame

\* MarketTracker.get_all_token_ids
get_all_token_ids == DOMAIN token_index

\* _on_ws_connected: all_tokens = self._tracker.get_all_token_ids()
RecOnConnected ==
    /\ rec_ws_pc = "callback"
    /\ all_tokens' = get_all_token_ids
    /\ rec_ws_pc' = "send_initial"
    /\ UNCHANGED << rec_pc, all_new_tokens, all_old_tokens, rec_socket, is_connected,
                    rec_subscribed, rec_unsubscribed, rec_connects >>
    /\ UNCHANGED trackerVars
    /\ RecorderFrame

\* _on_ws_connected: if all_tokens: self._ws.subscribe_initial(all_tokens)
RecSubscribeInitial ==
    /\ rec_ws_pc = "send_initial"
    /\ rec_subscribed' = SendTokens(rec_subscribed, all_tokens)
    /\ rec_ws_pc' = "open"
    /\ UNCHANGED << rec_pc, all_new_tokens, all_old_tokens, rec_socket, is_connected,
                    all_tokens, rec_unsubscribed, rec_connects >>
    /\ UNCHANGED trackerVars
    /\ RecorderFrame

\* the peer or the network drops the socket, at any time
RecSocketDrop ==
    /\ rec_socket
    /\ rec_socket' = FALSE
    /\ UNCHANGED << rec_pc, all_new_tokens, all_old_tokens, rec_ws_pc, is_connected,
                    all_tokens, rec_subscribed, rec_unsubscribed, rec_connects >>
    /\ UNCHANGED trackerVars
    /\ RecorderFrame

\* _on_close, once _on_open has returned: self._connected.clear(); the loop
\* then waits and connects again
RecOnClose ==
    /\ rec_ws_pc = "open"
    /\ ~rec_socket
    /\ is_connected' = FALSE
    /\ rec_ws_pc' = "connecting"
    /\ UNCHANGED << rec_pc, all_new_tokens, all_old_tokens, rec_socket, all_tokens,
                    rec_subscribed, rec_unsubscribed, rec_connects >>
    /\ UNCHANGED trackerVars
    /\ RecorderFrame

RecorderNext ==
    \/ RecRun \/ RecPoll \/ RecSubscribeTest \/ RecSubscribeSend \/ RecUnsubscribe
    \/ RecSocketOpen \/ RecOnOpen \/ RecOnConnected \/ RecSubscribeInitial
    \/ RecSocketDrop \/ RecOnClose

\* the connection is open (_on_open has returned, the socket is up) and the
\* discovery thread is between two polls
RecOpenAndIdle ==
    /\ rec_ws_pc = "open"
    /\ rec_socket
    /\ is_connected
    /\ rec_pc = "idle"

ActiveTokens ==
    UNION { { active_markets[slug].token_ids[i] :
                i \in 1..Len(active_markets[slug].token_ids) } :
              slug \in DOMAIN active_markets }

C27_IndexedTokensSubscribed ==
    RecOpenAndIdle => DOMAIN token_index \subseteq rec_subscribed

\* the same for the active markets, as long as no market that listed a token
\* id of an active market has expired
C27_ActiveTokensSubscribedUnlessShared ==
    (RecOpenAndIdle /\ ActiveTokens \subseteq DOMAIN token_index)
    => ActiveTokens \subseteq rec_subscribed

\* a market was added while the connection was open and its tokens were sent
\* in an incremental subscribe; another was there before the second
\* connection opened and was sent in its initial subscription
C27_Witness_Resynced ==
    /\ RecOpenAndIdle
    /\ rec_connects = 2
    /\ tr_polls = 3
    /\ Cardinality(DOMAIN active_markets) >= 2
    /\ ActiveTokens \subseteq rec_subscribed

-----------------------------------------------------------------------------
(***************************************************************************)
(* trade_streamer.py: the dedupe key of one log across runs of the service *)
(*                                                                         *)
(* The service is started, processes the block of one OrderFilled log and  *)
(* is stopped; a restart builds a new tracker, whose first poll finds the  *)
(* markets listed at that time, and the same log is processed again.  The  *)
(* normalizer reads the log, the block timestamp, the receive time of the  *)
(* head and the tracker, and nothing else of the service.                  *)
(***************************************************************************)

MaxRuns == 2

\* a second market the tracker may hold, with tokens of its own
OtherMarket ==
    [ slug             |-> "btc-updown-1h",
      token_to_outcome |-> (IntText(99) :> "Up") @@ (IntText(98) :> "Down") ]

\* what the first poll of a run can have found
TrackedSets == { { TrackedMarket }, { TrackedMarket, OtherMarket } }

\* exchange fills: token against quote both ways, token against a token of
\* the other market both ways, a fill of the other market, an unknown token
ReplayLogs ==
    { decode_order_filled_log(Fill(7, 3, 2, vals, "exchange", 0)) :
        vals \in { << 77, 0, 20000, 10000, 0 >>, << 0, 78, 10000, 20000, 0 >>,
                   << 77, 99, 20000, 10000, 0 >>, << 99, 77, 20000, 30000, 0 >>,
                   << 99, 0, 20000, 10000, 0 >>, << 55, 0, 20000, 10000, 0 >> } }

ReplayBlockTimes == { 6, 1007 }
ReplayReceiveTimes == { 6500, 9000 }

\* MarketTracker._token_index and _active_markets after a poll that found
\* these markets
IndexOf(markets) ==
    [ t \in UNION { DOMAIN mk.token_to_outcome : mk \in markets } |->
        (CHOOSE mk \in markets : t \in DOMAIN mk.token_to_outcome).slug ]
ActiveOf(markets) ==
    [ slug \in { mk.slug : mk \in markets } |-> CHOOSE mk \in markets : mk.slug = slug ]

ReplayIdle ==
    /\ rs_log = None
    /\ rs_block_ts = 0
    /\ rs_pc = "idle"
    /\ rs_keys = << >>

ReplayTracker(markets) ==
    /\ token_index' = IndexOf(markets)
    /\ active_markets' = ActiveOf(markets)
    /\ UNCHANGED << tr_timeframes, tr_now, tr_polls, tr_listing, tr_discovery_now,
                    tr_added, tr_expired, tr_ever_expired >>

ReplayInit ==
    /\ rs_log \in ReplayLogs
    /\ rs_block_ts \in ReplayBlockTimes
    /\ rs_pc = "running"
    /\ rs_keys = << >>
    /\ \E markets \in TrackedSets :
         /\ token_index = IndexOf(markets)
         /\ active_markets = ActiveOf(markets)
    /\ tr_timeframes = << << "5", "m" >>, << "1", "h" >> >>
    /\ tr_now = 0
    /\ tr_polls = 1
    /\ tr_listing = {}
    /\ tr_discovery_now = 0
    /\ tr_added = {}
    /\ tr_expired = {}
    /\ tr_ever_expired = {}

\* _process_block reaches the log and normalizes it; the service is stopped
\* afterwards
ReplayProcess ==
    /\ rs_pc = "running"
    /\ \E receive_ms \in ReplayReceiveTimes :
         LET row == _normalize_trade(rs_log, rs_block_ts, receive_ms)
         IN  rs_keys' = Append(rs_keys,
                               IF row = None THEN None
                               ELSE [ kind |-> "key", dedupe_key |-> row.dedupe_key,
                                      asset |-> row.asset, side |-> row.side,
                                      server_received_ms |-> row.server_received_ms ])
    /\ rs_pc' = "stopped"
    /\ UNCHANGED << rs_log, rs_block_ts >>
    /\ UNCHANGED trackerVars
    /\ ReplayFrame

\* the service is started again: a new tracker and its first poll
ReplayRestart ==
    /\ rs_pc = "stopped"
    /\ Len(rs_keys) < MaxRuns
    /\ \E markets \in TrackedSets : ReplayTracker(markets)
    /\ rs_pc' = "running"
    /\ UNCHANGED << rs_log, rs_block_ts, rs_keys >>
    /\ ReplayFrame

ReplayNext == ReplayProcess \/ ReplayRestart

\* C34 as stated: the runs that make a row from the log give it the same
\* dedupe key, whatever the receive time and whatever other markets each
\* run tracks.
C34_Original_SameLogSameKey ==
    \A i, j \in 1..Len(rs_keys) :
        (rs_keys[i] # None /\ rs_keys[j] # None)
        => rs_keys[i].dedupe_key = rs_keys[j].dedupe_key

\* what holds: the key is the same in all runs that make a row of the same
\* asset and side from the log, and so in all runs when one leg of the log
\* is the quote asset
C34_SameAssetAndSideSameKey ==
    \A i, j \in 1..Len(rs_keys) :
        (rs_keys[i] # None /\ rs_keys[j] # None)
        => /\ (rs_keys[i].asset = rs_keys[j].asset /\ rs_keys[i].side = rs_keys[j].side)
              => rs_keys[i].dedupe_key = rs_keys[j].dedupe_key
           /\ (rs_log.maker_asset_id = USDC_ASSET_ID \/ rs_log.taker_asset_id = USDC_ASSET_ID)
              => rs_keys[i].dedupe_key = rs_keys[j].dedupe_key

-----------------------------------------------------------------------------
(***************************************************************************)
(* recorder.py: the CSV writers of OrderBookRecorder                       *)
(*                                                                         *)
(* The main thread creates a MarketCsvWriter per added market and closes   *)
(* it when the market expires or at shutdown, always under _writers_lock.  *)
(* The websocket thread runs _handle_book, _handle_price_change and        *)
(* _handle_last_trade: each resolves the token in the tracker (under the   *)
(* tracker's lock), looks the writer up (under _writers_lock) and then     *)
(* calls the writer outside any lock.  The three handlers have the same    *)
(* shape and are one handler here; the subscribe and unsubscribe messages  *)
(* of the main thread do not touch the writers and are left out.  A market *)
(* that has expired is not added again, so a slug names one writer object. *)
(***************************************************************************)

\* calls of a writer in one run
MaxSinkWrites == 2

\* asset ids of the events the peer sends: the tokens of the listed markets
\* and an unknown one
EventTokens == { << "7", "7" >>, << "7", "8" >>, << "7", "9" >>, << "5", "5" >> }

SinkIdle ==
    /\ sink_pc = "start"
    /\ sink_added = {}
    /\ sink_expired = {}
    /\ writers = {}
    /\ closed_writers = {}
    /\ ev_listening = FALSE
    /\ ev_pc = "idle"
    /\ ev_slug = {}
    /\ ev_writer = {}
    /\ sink_writes = << >>

\* OrderBookRecorder.__init__
SinkInit == SinkIdle

\* _create_writers, under _writers_lock
_create_writers(dict, markets) == dict \cup markets

\* run: the first poll, _create_writers(added), then self._ws.start()
SinkRun ==
    /\ sink_pc = "start"
    /\ \E chosen \in RecListings, now1 \in RecInstants, now2 \in RecInstants :
          LET polled == poll_once(TrackerState, ListingOf(chosen), 0, now1, now2)
          IN  /\ RecPollChoice(chosen, now1, now2)
              /\ PollApply(polled, chosen, now1, now2)
              /\ writers' = _create_writers(writers, polled.added)
    /\ sink_pc' = "idle"
    /\ ev_listening' = TRUE
    /\ UNCHANGED << sink_added, sink_expired, closed_writers, ev_pc, ev_slug, ev_writer,
                    sink_writes >>
    /\ SinkFrame

\* _discovery_loop: added, expired = self._tracker.poll_once()
SinkPoll ==
    /\ sink_pc = "idle"
    /\ \E chosen \in RecListings, now1 \in RecInstants, now2 \in RecInstants :
          LET polled == poll_once(TrackerState, ListingOf(chosen), 0, now1, now2)
          IN  /\ RecPollChoice(chosen, now1, now2)
              /\ PollApply(polled, chosen, now1, now2)
              /\ sink_added' = polled.added
              /\ sink_expired' = polled.expired
    /\ sink_pc' = "subscribe"
    /\ UNCHANGED << writers, closed_writers, ev_listening, ev_pc, ev_slug, ev_writer,
                    sink_writes >>
    /\ SinkFrame

\* _subscribe_markets(added): the writers of the added markets
SinkSubscribe ==
    /\ sink_pc = "subscribe"
    /\ writers' = _create_writers(writers, sink_added)
    /\ sink_pc' = "unsubscribe"
    /\ UNCHANGED << sink_added, sink_expired, closed_writers, ev_listening, ev_pc, ev_slug,
                    ev_writer, sink_writes >>
    /\ UNCHANGED trackerVars
    /\ SinkFrame

\* _unsubscribe_markets(expired): under _writers_lock, each expired market's
\* writer is popped, flushed and closed; then the wait of the loop
SinkUnsubscribe ==
    /\ sink_pc = "unsubscribe"
    /\ writers' = writers \ sink_expired
    /\ closed_writers' = closed_writers \cup (writers \cap sink_expired)
    /\ sink_pc' = "idle"
    /\ sink_added' = {}
    /\ sink_expired' = {}
    /\ UNCHANGED << ev_listening, ev_pc, ev_slug, ev_writer, sink_writes >>
    /\ UNCHANGED trackerVars
    /\ SinkFrame

\* the loop ends (stop event) and _shutdown calls self._ws.stop(): the socket
\* is closed and the thread joined for at most 10 s, so a handler that is
\* running may still be running afterwards
SinkStopWs ==
    /\ sink_pc = "idle"
    /\ sink_pc' = "shutdown"
    /\ ev_listening' = FALSE
    /\ UNCHANGED << sink_added, sink_expired, writers, closed_writers, ev_pc, ev_slug,
                    ev_writer, sink_writes >>
    /\ UNCHANGED trackerVars
    /\ SinkFrame

\* _shutdown: under _writers_lock every writer is flushed and closed and the
\* dict is cleared
SinkShutdown ==
    /\ sink_pc = "shutdown"
    /\ closed_writers' = closed_writers \cup writers
    /\ writers' = {}
    /\ sink_pc' = "stopped"
    /\ UNCHANGED << sink_added, sink_expired, ev_listening, ev_pc, ev_slug, ev_writer,
                    sink_writes >>
    /\ UNCHANGED trackerVars
    /\ SinkFrame

\* a handler starts on an event: resolved = self._tracker.resolve_token(asset_id)
EvResolve ==
    /\ ev_listening
    /\ ev_pc = "idle"
    /\ Len(sink_writes) < MaxSinkWrites
    /\ \E asset_id \in EventTokens :
         LET resolved == resolve_token(asset_id)
         IN  /\ resolved # None
             /\ ev_slug' = { resolved.slug }
    /\ ev_pc' = "resolved"
    /\ UNCHANGED << sink_pc, sink_added, sink_expired, writers, closed_writers,
                    ev_listening, ev_writer, sink_writes >>
    /\ UNCHANGED trackerVars
    /\ SinkFrame

\* with self._writers_lock: writer = self._writers.get(slug); the handler
\* returns when there is none
EvLookup ==
    /\ ev_pc = "resolved"
    /\ ev_writer' = ev_slug \cap writers
    /\ ev_pc' = IF ev_slug \cap writers = {} THEN "idle" ELSE "holding"
    /\ ev_slug' = IF ev_slug \cap writers = {} THEN {} ELSE ev_slug
    /\ UNCHANGED << sink_pc, sink_added, sink_expired, writers, closed_writers,
                    ev_listening, sink_writes >>
    /\ UNCHANGED trackerVars
    /\ SinkFrame

\* writer.write_book_row(...) (write_change_row, write_trade_row), outside
\* the lock: on a closed writer the file object raises ValueError, which
\* _on_message logs, and the row is lost
EvWrite ==
    /\ ev_pc = "holding"
    /\ sink_writes' = Append(sink_writes,
                             [ writer |-> ev_writer,
                               closed |-> ev_writer \cap closed_writers # {} ])
    /\ ev_pc' = "idle"
    /\ ev_slug' = {}
    /\ ev_writer' = {}
    /\ UNCHANGED << sink_pc, sink_added, sink_expired, writers, closed_writers,
                    ev_listening >>
    /\ UNCHANGED trackerVars
    /\ SinkFrame

SinkNext ==
    \/ SinkRun \/ SinkPoll \/ SinkSubscribe \/ SinkUnsubscribe \/ SinkStopWs \/ SinkShutdown
    \/ EvResolve \/ EvLookup \/ EvWrite

\* C39 as stated: no handler calls a writer that _unsubscribe_markets or
\* _shutdown has closed, in any interleaving of the websocket thread with
\* the main thread.
C39_Original_NoWriteAfterClose ==
    \A i \in 1..Len(sink_writes) : ~sink_writes[i].closed

\* the race on the expiry path: the recorder is running, and a handler has
\* called a writer that _unsubscribe_markets had closed
C39_WriteAfterExpiryClose ==
    /\ sink_pc = "idle"
    /\ ev_listening
    /\ \E i \in 1..Len(sink_writes) : sink_writes[i].closed

\* what the lock does give: a writer in the dict is open, the lookup never
\* hands out a closed writer, and a handler is only ever called on a writer
\* it got from the dict; a call on a closed writer happens only when the
\* main thread closed it between the handler's lookup and its call.
C39_LookupReturnsOpenWriter ==
    /\ [](writers \cap closed_writers = {})
    /\ [][(ev_pc = "resolved" /\ ev_pc' = "holding")
          => (ev_writer' # {} /\ ev_writer' \subseteq writers
              /\ ev_writer' \cap closed_writers = {})]_vars
    /\ [][(Len(sink_writes') > Len(sink_writes)
           /\ sink_writes'[Len(sink_writes')].closed /\ ev_writer \cap closed_writers = {})
          => FALSE]_vars
    /\ [][(ev_pc = "holding" /\ ev_pc' = "holding"
           /\ ev_writer \cap closed_writers = {} /\ ev_writer \cap closed_writers' # {})
          => sink_pc \in { "unsubscribe", "shutdown" }]_vars

-----------------------------------------------------------------------------
(***************************************************************************)
(* Specifications                                                          *)
(***************************************************************************)

InitDecode ==
    /\ DecodeInit
    /\ ChainIdle /\ BisectIdle /\ NormalizeIdle /\ ScanIdle /\ WsIdle
    /\ TrackerIdle /\ PipeIdle /\ EnrichIdle
    /\ RpcIdle
    /\ PolyIdle
    /\ RecorderIdle
    /\ ReplayIdle
    /\ SinkIdle

SpecDecode == InitDecode /\ [][DecodeNext]_vars

InitBisect ==
    /\ BisectInit
    /\ DecodeIdle /\ NormalizeIdle /\ ScanIdle /\ WsIdle
    /\ TrackerIdle /\ PipeIdle /\ EnrichIdle
    /\ RpcIdle
    /\ PolyIdle
    /\ RecorderIdle
    /\ ReplayIdle
    /\ SinkIdle

InitBackfill ==
    /\ BackfillInit
    /\ DecodeIdle /\ NormalizeIdle /\ ScanIdle /\ WsIdle
    /\ TrackerIdle /\ PipeIdle /\ EnrichIdle
    /\ RpcIdle
    /\ PolyIdle
    /\ RecorderIdle
    /\ ReplayIdle
    /\ SinkIdle

InitNormalize ==
    /\ NormalizeInit
    /\ DecodeIdle /\ BisectIdle /\ ScanIdle /\ WsIdle
    /\ TrackerIdle /\ PipeIdle /\ EnrichIdle
    /\ RpcIdle
    /\ PolyIdle
    /\ RecorderIdle
    /\ ReplayIdle
    /\ SinkIdle

InitScan ==
    /\ ScanInit
    /\ DecodeIdle /\ BisectIdle /\ NormalizeIdle /\ WsIdle
    /\ TrackerIdle /\ PipeIdle /\ EnrichIdle
    /\ RpcIdle
    /\ PolyIdle
    /\ RecorderIdle
    /\ ReplayIdle
    /\ SinkIdle

InitWs ==
    /\ WsInit
    /\ DecodeIdle /\ ChainIdle /\ BisectIdle /\ NormalizeIdle /\ ScanIdle
    /\ TrackerIdle /\ PipeIdle /\ EnrichIdle
    /\ RpcIdle
    /\ PolyIdle
    /\ RecorderIdle
    /\ ReplayIdle
    /\ SinkIdle

InitReplay ==
    /\ ReplayInit
    /\ DecodeIdle /\ ChainIdle /\ BisectIdle /\ NormalizeIdle /\ ScanIdle /\ WsIdle
    /\ PipeIdle /\ EnrichIdle
    /\ RpcIdle
    /\ PolyIdle
    /\ RecorderIdle
    /\ SinkIdle

InitSink ==
    /\ TrackerInit
    /\ SinkInit
    /\ DecodeIdle /\ ChainIdle /\ BisectIdle /\ NormalizeIdle /\ ScanIdle /\ WsIdle
    /\ PipeIdle /\ EnrichIdle
    /\ RpcIdle
    /\ PolyIdle
    /\ ReplayIdle
    /\ RecorderIdle

InitRecorder ==
    /\ TrackerInit
    /\ RecorderInit
    /\ DecodeIdle /\ ChainIdle /\ BisectIdle /\ NormalizeIdle /\ ScanIdle /\ WsIdle
    /\ PipeIdle /\ EnrichIdle
    /\ RpcIdle
    /\ PolyIdle
    /\ ReplayIdle
    /\ SinkIdle

SpecRecorder == InitRecorder /\ [][RecorderNext]_vars

InitTracker ==
    /\ TrackerInit
    /\ DecodeIdle /\ ChainIdle /\ BisectIdle /\ NormalizeIdle /\ ScanIdle /\ WsIdle
    /\ PipeIdle /\ EnrichIdle
    /\ RpcIdle
    /\ PolyIdle
    /\ RecorderIdle
    /\ ReplayIdle
    /\ SinkIdle

SpecTracker == InitTracker /\ [][TrackerNext]_vars

InitPipe ==
    /\ PipeInit
    /\ DecodeIdle /\ ChainIdle /\ BisectIdle /\ NormalizeIdle /\ ScanIdle /\ WsIdle
    /\ EnrichIdle
    /\ RpcIdle
    /\ PolyIdle
    /\ RecorderIdle
    /\ ReplayIdle
    /\ SinkIdle

SpecPipe == InitPipe /\ [][PipeNext]_vars

InitEnrich ==
    /\ EnrichInit
    /\ DecodeIdle /\ ChainIdle /\ BisectIdle /\ NormalizeIdle /\ ScanIdle /\ WsIdle
    /\ TrackerIdle /\ PipeIdle
    /\ RpcIdle
    /\ PolyIdle
    /\ RecorderIdle
    /\ ReplayIdle
    /\ SinkIdle

SpecEnrich == InitEnrich /\ [][EnrichNext]_vars

SpecWs == InitWs /\ [][WsNext]_vars

\* the loop thread is scheduled: its loop test, its creation of the next
\* connection and its wait (which has a timeout) each happen eventually;
\* when a connection ends is up to the peer
SpecWsLive ==
    /\ InitWs /\ [][WsNext]_vars
    /\ WF_vars(WsLoopTest) /\ WF_vars(WsConnect) /\ WF_vars(WsWait)

InitRpc ==
    /\ RpcInit
    /\ DecodeIdle /\ ChainIdle /\ BisectIdle /\ NormalizeIdle /\ ScanIdle /\ WsIdle
    /\ TrackerIdle /\ PipeIdle /\ EnrichIdle
    /\ PolyIdle
    /\ RecorderIdle
    /\ ReplayIdle
    /\ SinkIdle

SpecRpc == InitRpc /\ [][RpcNext]_vars

InitPolyRpc ==
    /\ PolyInit
    /\ DecodeIdle /\ ChainIdle /\ BisectIdle /\ NormalizeIdle /\ ScanIdle /\ WsIdle
    /\ TrackerIdle /\ PipeIdle /\ EnrichIdle /\ RpcIdle
    /\ RecorderIdle
    /\ ReplayIdle
    /\ SinkIdle

SpecPolyRpc == InitPolyRpc /\ [][PolyNext]_vars

SpecScan == InitScan /\ [][ScanNext]_vars

\* the scan is one sequential loop: as long as it is inside the loop its next
\* iteration happens (rpc.call returns or raises after its bounded retries);
\* what the provider answers is not constrained
SpecScanLive == InitScan /\ [][ScanNext]_vars /\ WF_vars(ScanLoopStep)

SpecNormalize == InitNormalize /\ [][NormalizeNext]_vars

SpecReplay == InitReplay /\ [][ReplayNext]_vars

SpecSink == InitSink /\ [][SinkNext]_vars

SpecBisect == InitBisect /\ [][BisectNext]_vars

SpecBackfill == InitBackfill /\ [][BackfillNext]_vars

=============================================================================
